---- MODULE Spec2Model ----
(***************************************************************************)
(* A model of the assembly interpreter: the value and address types, the  *)
(* machine state (Memory), the data effect of every command               *)
(* (Command::execute), the control-flow effect (Interpreter::mutate), the *)
(* static semantic check and the driver loop of run().                    *)
(*                                                                         *)
(* Conventions.  A Rust String is a sequence of one-character strings.    *)
(* A usize is represented by the integer congruent to it modulo 2^64 of   *)
(* least absolute value, so a negative index stands for a wrapped         *)
(* (huge) usize; UGe compares such indices with a length.  isize and      *)
(* usize are words of WordBits bits.  Result<T, E> is a record with an    *)
(* err field (NoError when Ok).  A panic is the error kind "Panic".  An   *)
(* arithmetic overflow panics in a build with overflow checks and wraps   *)
(* in a build without: the operation has both outcomes.                   *)
(***************************************************************************)
EXTENDS Integers, Sequences, FiniteSets, TLC

VARIABLES
    source_code,      \* Interpreter.source_code: the parsed commands
    program_pointer,  \* Interpreter.program_pointer
    memory,           \* Interpreter.memory: rax, rbx, rcx, stack_frame, stack
    phase,            \* where run() stands: "constructed", "running",
                      \* "halted" (terminal value), "done" (loop ended),
                      \* "error" (Err returned), "panic" (process aborted)
    exit_code,        \* run()'s exit_code
    error,            \* the ProgramError run() returned, NoError if none
    output,           \* the lines printed by syscall printf
    executed,         \* history: number of commands the driver loop executed
    calls,            \* history: for every frame pushed so far, in order, the
                      \* index of the command that pushed it and the registers
                      \* at that moment
    last,             \* history: the step the driver loop took last
    written,          \* history: the registers and stack slots Memory::set
                      \* has stored a value in
    follow,           \* FALSE: the model keeps the whole call-frame stack and
                      \* the history, and leaves a run that needs more than
                      \* MaxFrames frames; TRUE: it follows every run, keeping
                      \* the newest frames only and no history
    parser            \* Command::from_str at work on one line

vars == <<source_code, program_pointer, memory, phase, exit_code, error,
          output, executed, calls, last, written, follow, parser>>

----------------------------------------------------------------------------
(* Bounds of the model *)

\* The driver loop takes no call or jump once this many frames are live.
MaxFrames == 3
\* Length of the programs enumerated exhaustively over Alphabet.
MaxProgLen == 4

\* The width of isize and usize, which is the width of a pointer of the
\* target.
WordBits == 16

\* The length of the stack.
StackLen == 64

\* isize::MIN, isize::MAX and the number of values of a word.
ISizeMax == 2 ^ (WordBits - 1) - 1

ISizeMin == 0 - 2 ^ (WordBits - 1)

Modulus == 2 ^ WordBits

\* The word an arithmetic result wraps to.
WrapWord(n) == ((n - ISizeMin) % Modulus) + ISizeMin

InWord(n) == ISizeMin <= n /\ n <= ISizeMax

\* The number a usize is.
USizeOf(n) == IF n < 0 THEN n + Modulus ELSE n

----------------------------------------------------------------------------
(* register.rs, address.rs: registers and addresses *)

Registers == {"rax", "rbx", "rcx"}

\* Option<Address>::None, and the address field of a value that has none.
NoAddress == [kind |-> "None", inner |-> "", reg |-> "", index |-> 0]

Register(r) == [kind |-> "Register", inner |-> "", reg |-> r, index |-> 0]

StackPointer(n) == [kind |-> "StackPointer", inner |-> "", reg |-> "", index |-> n]

\* Reference(Destination): d is a Register or a StackPointer.
Reference(d) == [kind |-> "Reference", inner |-> d.kind, reg |-> d.reg, index |-> d.index]

\* The Destination inside a Reference.
Destination(a) == [kind |-> a.inner, inner |-> "", reg |-> a.reg, index |-> a.index]

\* index >= len on usize, an index below zero standing for a wrapped usize.
UGe(index, len) == index < 0 \/ index >= len

----------------------------------------------------------------------------
(* assignment.rs: values (Type) and operands (Assignment) *)

Untyped == [t |-> "Untyped", i |-> 0, s |-> <<>>, a |-> NoAddress]

TypeInteger(n) == [t |-> "Integer", i |-> n, s |-> <<>>, a |-> NoAddress]

TypeString(cs) == [t |-> "String", i |-> 0, s |-> cs, a |-> NoAddress]

TypeAddress(ad) == [t |-> "Address", i |-> 0, s |-> <<>>, a |-> ad]

Value(v) == [k |-> "Value", v |-> v, a |-> NoAddress]

Address(ad) == [k |-> "Address", v |-> Untyped, a |-> ad]

\* From<Destination> for Assignment
AssignmentFrom(d) == Address(d)

----------------------------------------------------------------------------
(* program_error.rs, memory.rs, interpreter.rs: errors *)

\* An error: its kind, the label of an error about a label, the operands of
\* OperationError::Subtraction.
Error(kind, l, t1, t2) == [kind |-> kind, label |-> l, left |-> t1, right |-> t2]

NoError == Error("", "", Untyped, Untyped)

Err(kind) == Error(kind, "", Untyped, Untyped)

LabelNotFound(l) == Error("LabelNotFound", l, Untyped, Untyped)

ReturnMissing(l) == Error("ReturnMissing", l, Untyped, Untyped)

LeaveMissing(l) == Error("LeaveMissing", l, Untyped, Untyped)

\* OperationError::Subtraction(self.clone(), other.clone())
Subtraction(t1, t2) == Error("Subtraction", "", t1, t2)

----------------------------------------------------------------------------
(* Display of integers and addresses, Type::to_string_raw *)

Digit(d) == CASE d = 0 -> "0" [] d = 1 -> "1" [] d = 2 -> "2" [] d = 3 -> "3"
              [] d = 4 -> "4" [] d = 5 -> "5" [] d = 6 -> "6" [] d = 7 -> "7"
              [] d = 8 -> "8" [] OTHER -> "9"

RECURSIVE NatChars(_)
NatChars(n) == IF n < 10 THEN <<Digit(n)>>
               ELSE NatChars(n \div 10) \o <<Digit(n % 10)>>

IntChars(n) == IF n < 0 THEN <<"-">> \o NatChars(-n) ELSE NatChars(n)

\* A usize prints as the number it is.
USizeChars(n) == NatChars(USizeOf(n))

RegisterChars(r) == CASE r = "rax" -> <<"r", "a", "x">>
                      [] r = "rbx" -> <<"r", "b", "x">>
                      [] OTHER -> <<"r", "c", "x">>

DestinationChars(d) == IF d.kind = "Register" THEN RegisterChars(d.reg)
                       ELSE <<"0", "x">> \o USizeChars(d.index)

AddressChars(ad) == CASE ad.kind = "Register" -> RegisterChars(ad.reg)
                      [] ad.kind = "StackPointer" -> <<"0", "x">> \o USizeChars(ad.index)
                      [] OTHER -> DestinationChars(Destination(ad))

to_string_raw(v) == CASE v.t = "String" -> v.s
                      [] v.t = "Integer" -> IntChars(v.i)
                      [] v.t = "Address" -> AddressChars(v.a)
                      [] OTHER -> <<>>

----------------------------------------------------------------------------------------------------------------------------------------------------
(* address.rs: TryAdd *)

Ok(v) == [err |-> NoError, v |-> v]

Fail(kind) == [err |-> Err(kind), v |-> Untyped]

\* The outcomes of an isize operation whose exact result is n: the results
\* that are in range, or the panic, and the result wrapped.
Checked(n) ==
    IF InWord(n) THEN {[err |-> NoError, n |-> n]}
    ELSE {[err |-> Err("Panic"), n |-> 0], [err |-> NoError, n |-> WrapWord(n)]}

SlotValue(n) == TypeAddress(StackPointer(n))

\* An outcome as a Result<Type, _> holding an Integer, or a stack slot address.
IntegerResult(q) == [err |-> q.err, v |-> IF q.err = NoError THEN TypeInteger(q.n) ELSE Untyped]

SlotResult(q) == [err |-> q.err, v |-> IF q.err = NoError THEN SlotValue(q.n) ELSE Untyped]

\* A sum of addresses that falls back to text when one is no stack slot.
try_add_addressAsText(a1, a2) ==
    IF a1.kind = "StackPointer" /\ a2.kind = "StackPointer"
    THEN IF USizeOf(a1.index) + USizeOf(a2.index) >= Modulus
         THEN {Fail("Panic"), Ok(SlotValue(WrapWord(a1.index + a2.index)))}
         ELSE {Ok(SlotValue(WrapWord(a1.index + a2.index)))}
    ELSE {Ok(TypeString(AddressChars(a1) \o AddressChars(a2)))}

\* TryAdd<Address> for Address: *i + *j on usize
try_add_address(a1, a2) ==
    IF a1.kind = "StackPointer" /\ a2.kind = "StackPointer"
    THEN IF USizeOf(a1.index) + USizeOf(a2.index) >= Modulus
         THEN {Fail("Panic"), Ok(SlotValue(WrapWord(a1.index + a2.index)))}
         ELSE {Ok(SlotValue(WrapWord(a1.index + a2.index)))}
    ELSE {Fail("TryAdd")}

\* TryAdd<isize> for Address: ((i as isize) + j) as usize
try_add_isize(a1, j) ==
    IF a1.kind = "StackPointer"
    THEN {SlotResult(q) : q \in Checked(a1.index + j)}
    ELSE {Fail("TryAdd")}

----------------------------------------------------------------------------
(* assignment.rs: Type::add, Type::sub *)

\* The outcomes of self + other.
Type_add(x, y) ==
    CASE x.t = "Integer" /\ y.t = "Integer" -> {IntegerResult(q) : q \in Checked(x.i + y.i)}
      [] x.t = "Address" /\ y.t = "Integer" -> try_add_isize(x.a, y.i)
      [] x.t = "Address" /\ y.t = "Address" -> try_add_address(x.a, y.a)
      [] OTHER -> {Ok(TypeString(to_string_raw(x) \o to_string_raw(y)))}

\* i < j on usize, an index below zero standing for a wrapped usize.
ULt(i, j) == IF (i < 0) = (j < 0) THEN i < j ELSE j < 0

\* A subtraction that takes an Integer from a stack slot address, as the
\* addition adds one.
Type_subSlotInteger(x, y) ==
    CASE x.t = "Integer" /\ y.t = "Integer" -> {IntegerResult(q) : q \in Checked(x.i - y.i)}
      [] /\ x.t = "Address" /\ x.a.kind = "StackPointer"
         /\ y.t = "Address" /\ y.a.kind = "StackPointer" ->
            IF ULt(x.a.index, y.a.index)
            THEN {Fail("Panic"), Ok(SlotValue(WrapWord(x.a.index - y.a.index)))}
            ELSE {Ok(SlotValue(WrapWord(x.a.index - y.a.index)))}
      [] x.t = "Address" /\ x.a.kind = "StackPointer" /\ y.t = "Integer" ->
            {SlotResult(q) : q \in Checked(x.a.index - y.i)}
      [] OTHER -> {[err |-> Subtraction(x, y), v |-> Untyped]}

\* The outcomes of self - other.
Type_sub(x, y) ==
    CASE x.t = "Integer" /\ y.t = "Integer" -> {IntegerResult(q) : q \in Checked(x.i - y.i)}
      [] /\ x.t = "Address" /\ x.a.kind = "StackPointer"
         /\ y.t = "Address" /\ y.a.kind = "StackPointer" ->
            IF ULt(x.a.index, y.a.index)
            THEN {Fail("Panic"), Ok(SlotValue(WrapWord(x.a.index - y.a.index)))}
            ELSE {Ok(SlotValue(WrapWord(x.a.index - y.a.index)))}
      [] OTHER -> {[err |-> Subtraction(x, y), v |-> Untyped]}

----
(* memory.rs: Memory::get, Memory::set, Memory::register_state *)

RegisterOf(mem, r) == CASE r = "rax" -> mem.rax
                        [] r = "rbx" -> mem.rbx
                        [] OTHER -> mem.rcx

\* The read of a Register or StackPointer address; the stack is indexed
\* from 0, the sequence mem.stack from 1.
GetDirect(mem, ad) ==
    IF ad.kind = "Register" THEN Ok(RegisterOf(mem, ad.reg))
    ELSE IF UGe(ad.index, Len(mem.stack)) THEN Fail("Read")
    ELSE Ok(mem.stack[ad.index + 1])

Memory_get(mem, assignment) ==
    CASE assignment.k = "Value" -> Ok(assignment.v)
      [] assignment.a.kind = "Reference" ->
            GetDirect(mem, AssignmentFrom(Destination(assignment.a)).a)
      [] OTHER -> GetDirect(mem, assignment.a)

\* A usize_from that takes the Integer 0 for a slot.
usize_fromZero(mem, ty) ==
    CASE ty.t = "Integer" ->
            IF ty.i < 0 \/ UGe(ty.i, Len(mem.stack)) THEN [err |-> Err("Read"), n |-> 0]
            ELSE [err |-> NoError, n |-> ty.i]
      [] ty.t = "Address" ->
            CASE ty.a.kind = "StackPointer" -> [err |-> NoError, n |-> ty.a.index]
              [] OTHER -> [err |-> Err("SegmentationFault"), n |-> 0]
      [] OTHER -> [err |-> Err("Read"), n |-> 0]

\* usize_from, local to Memory::set
usize_from(mem, ty) ==
    CASE ty.t = "Integer" ->
            IF ty.i <= 0 \/ UGe(ty.i, Len(mem.stack)) THEN [err |-> Err("Read"), n |-> 0]
            ELSE [err |-> NoError, n |-> ty.i]
      [] ty.t = "Address" ->
            CASE ty.a.kind = "StackPointer" -> [err |-> NoError, n |-> ty.a.index]
              [] OTHER -> [err |-> Err("SegmentationFault"), n |-> 0]
      [] OTHER -> [err |-> Err("Read"), n |-> 0]

SetRegister(mem, r, value) ==
    CASE r = "rax" -> [mem EXCEPT !.rax = value]
      [] r = "rbx" -> [mem EXCEPT !.rbx = value]
      [] OTHER -> [mem EXCEPT !.rcx = value]

\* A store in the slot after the one addressed.
StoreSlotNext(mem, address, value) ==
    IF UGe(address + 1, Len(mem.stack)) THEN [err |-> Err("Panic"), mem |-> mem]
    ELSE [err |-> NoError, mem |-> [mem EXCEPT !.stack[address + 2] = value]]

\* self.stack[address] = value: an index out of bounds panics.
StoreSlot(mem, address, value) ==
    IF UGe(address, Len(mem.stack)) THEN [err |-> Err("Panic"), mem |-> mem]
    ELSE [err |-> NoError, mem |-> [mem EXCEPT !.stack[address + 1] = value]]

\* A bounds check that lets the index stack.len() through.
Memory_setUpToLen(mem, destination, value) ==
    CASE destination.kind = "Register" ->
            [err |-> NoError, mem |-> SetRegister(mem, destination.reg, value)]
      [] destination.kind = "StackPointer" ->
            IF destination.index < 0 \/ destination.index > Len(mem.stack)
            THEN [err |-> Err("Write"), mem |-> mem]
            ELSE [err |-> NoError,
                  mem |-> [mem EXCEPT !.stack =
                              [k \in 1..Len(mem.stack) |->
                                  IF k = destination.index + 1 THEN value
                                  ELSE mem.stack[k]]]]
      [] OTHER ->
            LET ty == Memory_get(mem, AssignmentFrom(Destination(destination)))
                address == usize_from(mem, ty.v)
            IN  IF ty.err # NoError THEN [err |-> ty.err, mem |-> mem]
                ELSE IF address.err # NoError THEN [err |-> address.err, mem |-> mem]
                ELSE StoreSlot(mem, address.n, value)

Memory_set(mem, destination, value) ==
    CASE destination.kind = "Register" ->
            [err |-> NoError, mem |-> SetRegister(mem, destination.reg, value)]
      [] destination.kind = "StackPointer" ->
            IF UGe(destination.index, Len(mem.stack))
            THEN [err |-> Err("Write"), mem |-> mem]
            ELSE [err |-> NoError, mem |-> [mem EXCEPT !.stack[destination.index + 1] = value]]
      [] OTHER ->
            LET ty == Memory_get(mem, AssignmentFrom(Destination(destination)))
                address == usize_from(mem, ty.v)
            IN  IF ty.err # NoError THEN [err |-> ty.err, mem |-> mem]
                ELSE IF address.err # NoError THEN [err |-> address.err, mem |-> mem]
                ELSE StoreSlot(mem, address.n, value)

\* A snapshot of registers that hold nothing.
register_stateFresh(mem) == <<Untyped, Untyped, Untyped>>

\* register_state: (memory.rax.clone(), memory.rbx.clone(), memory.rcx.clone())
register_state(mem) == <<mem.rax, mem.rbx, mem.rcx>>

----------------------------------------------------------------------------
(* command.rs: Command *)

NoOperand == Value(Untyped)

Cmd(op, d, o1, o2, src, l) ==
    [op |-> op, destination |-> d, operand1 |-> o1, operand2 |-> o2,
     source |-> src, label |-> l]

Mov(d, a) == Cmd("Mov", d, a, NoOperand, NoAddress, "")

Add(d, a, b) == Cmd("Add", d, a, b, NoAddress, "")

Sub(d, a, b) == Cmd("Sub", d, a, b, NoAddress, "")

LoadEffectiveAddress(d, src) == Cmd("LoadEffectiveAddress", d, NoOperand, NoOperand, src, "")

CallRet(d, l) == Cmd("CallRet", d, NoOperand, NoOperand, NoAddress, l)

CallVoid(l) == Cmd("CallVoid", NoAddress, NoOperand, NoOperand, NoAddress, l)

Jmp(l) == Cmd("Jmp", NoAddress, NoOperand, NoOperand, NoAddress, l)

Label(l) == Cmd("Label", NoAddress, NoOperand, NoOperand, NoAddress, l)

Return(a) == Cmd("Return", NoAddress, a, NoOperand, NoAddress, "")

Syscall(l) == Cmd("Syscall", NoAddress, NoOperand, NoOperand, NoAddress, l)

Leave == Cmd("Leave", NoAddress, NoOperand, NoOperand, NoAddress, "")

----------------------------------------------------------------------------
(* jump.rs, interpreter.rs: label lookup and the semantic check *)

\* The indices (from 0) of the definitions of label l in the program.
LabelPositions(code, l) ==
    {i \in 0..(Len(code) - 1) : code[i + 1].op = "Label" /\ code[i + 1].label = l}

\* iter().position(..): the first definition of l; only used when there is one.
Position(code, l) ==
    CHOOSE i \in LabelPositions(code, l) : \A j \in LabelPositions(code, l) : i <= j

\* The while loop of ends_with, from index on.
RECURSIVE EndsWithFrom(_, _, _, _, _)
EndsWithFrom(code, target_label, last_ops, missing, index) ==
    IF index >= Len(code) THEN NoError
    ELSE LET c == code[index + 1]
         IN  IF c.op = "Label" /\ c.label # target_label
             THEN Error(missing, target_label, Untyped, Untyped)
             ELSE IF c.op \in last_ops THEN NoError
             ELSE EndsWithFrom(code, target_label, last_ops, missing, index + 1)

\* JumpDestination::ends_with: last_ops are the commands last_command
\* accepts, missing the SemanticError that error builds.
ends_with(code, target_label, last_ops, missing) ==
    IF LabelPositions(code, target_label) = {} THEN LabelNotFound(target_label)
    ELSE EndsWithFrom(code, target_label, last_ops, missing,
                      Position(code, target_label))

\* A check that forgets the jumps.
CheckCommandCallsOnly(code, c) ==
    CASE c.op = "CallRet" -> ends_with(code, c.label, {"Return"}, "ReturnMissing")
      [] c.op = "CallVoid" ->
            ends_with(code, c.label, {"Return", "Leave"}, "LeaveMissing")
      [] OTHER -> NoError

\* The check semantic_check makes of one command.
CheckCommand(code, c) ==
    CASE c.op = "CallRet" -> ends_with(code, c.label, {"Return"}, "ReturnMissing")
      [] c.op \in {"CallVoid", "Jmp"} ->
            ends_with(code, c.label, {"Return", "Leave"}, "LeaveMissing")
      [] OTHER -> NoError

\* Interpreter::semantic_check: the first error in program order.
RECURSIVE SemanticCheckFrom(_, _)
SemanticCheckFrom(code, n) ==
    IF n > Len(code) THEN NoError
    ELSE IF CheckCommand(code, code[n]) # NoError THEN CheckCommand(code, code[n])
    ELSE SemanticCheckFrom(code, n + 1)

semantic_check(code) == SemanticCheckFrom(code, 1)

\* Interpreter::search_label_jump: the new program pointer, or an error.
search_label_jump(code, target_label) ==
    IF LabelPositions(code, target_label) = {}
    THEN [err |-> LabelNotFound(target_label), pc |-> 0]
    ELSE [err |-> NoError, pc |-> Position(code, target_label)]

----------------------------------------------------------------------------
(* interpreter.rs: StackFrame; the frame collection Memory.stack_frame *)

\* id is history: the number of the push that made the frame.
StackFrame(return_address, entered_with_jmp, destination, regs, id) ==
    [return_address |-> return_address, entered_with_jmp |-> entered_with_jmp,
     destination |-> destination, register_state |-> regs, id |-> id]

NoFrame == StackFrame(0, FALSE, NoAddress, <<Untyped, Untyped, Untyped>>, 0)

\* memory.stack_frame.push_back(stack_frame)
PushFrame(frames, frame) == Append(frames, frame)

\* Stands for the frames under the newest ones, which the model dropped.
Elided == StackFrame(0, FALSE, NoAddress, <<Untyped, Untyped, Untyped>>, -1)

\* The newest frames of the collection, over Elided when it holds more
\* than MaxFrames.
Window(frames) ==
    IF Len(frames) > MaxFrames
    THEN <<Elided>> \o SubSeq(frames, 3, Len(frames))
    ELSE frames

\* A pop at the other end of the collection.
PopFrameFront(frames) == [frame |-> Head(frames), rest |-> Tail(frames)]

\* self.memory.stack_frame.pop() on a collection that is not empty
PopFrame(frames) ==
    [frame |-> frames[Len(frames)], rest |-> SubSeq(frames, 1, Len(frames) - 1)]

\* A restore that ignores how the frame was entered.
RestoreAlways(mem, frame) ==
    [mem EXCEPT !.rax = frame.register_state[1],
                !.rbx = frame.register_state[2],
                !.rcx = frame.register_state[3]]

\* if !stack_frame.entered_with_jmp { (rax, rbx, rcx) = register_state }
RestoreRegisters(mem, frame) ==
    IF ~frame.entered_with_jmp
    THEN [mem EXCEPT !.rax = frame.register_state[1],
                     !.rbx = frame.register_state[2],
                     !.rcx = frame.register_state[3]]
    ELSE mem

----------------------------------------------------------------------------
(* command.rs: the printf syscall; main.rs: the exit code *)

\* str::replace("{}", with): every occurrence, left to right.
RECURSIVE Replace(_, _)
Replace(format, with) ==
    IF Len(format) < 2 THEN format
    ELSE IF format[1] = "{" /\ format[2] = "}"
         THEN with \o Replace(SubSeq(format, 3, Len(format)), with)
         ELSE <<format[1]>> \o Replace(Tail(format), with)

\* An exit code that is 0 for every value that is no Integer.
ExitCodeZeroSentinel(holding_value) ==
    IF holding_value.t = "Integer" THEN holding_value.i ELSE 0

\* The match on holding_value in run().
ExitCodeOf(holding_value) ==
    IF holding_value.t = "Integer" THEN holding_value.i ELSE 1

----------------------------------------------------------------------------
(* The programs the model runs *)

rax == Register("rax")

rbx == Register("rbx")

rcx == Register("rcx")

Imm(n) == Value(TypeInteger(n))

\* The commands of the programs enumerated exhaustively.
Alphabet ==
    { Label("A"), Label("B"),
      CallRet(rax, "A"), CallVoid("B"), Jmp("A"), Jmp("C"),
      Return(Address(rax)), Leave, Mov(rax, Imm(5)) }

ShortPrograms == UNION {[1..n -> Alphabet] : n \in 0..MaxProgLen}

\* The destinations of the value-returning calls of the nested programs.
CallDestinations ==
    { rax, rcx, StackPointer(1), Reference(rbx), Reference(StackPointer(3)),
      StackPointer(StackLen) }

\* The ways a block is entered, and the ways it is left.
Entries(l) == {CallRet(d, l) : d \in CallDestinations} \cup {CallVoid(l), Jmp(l)}

Terminators == {Return(Imm(7)), Return(Address(rax)), Return(Address(rbx)), Leave}

\* main enters A, A enters B; every block overwrites registers, so that a
\* restore, a kept register and a written return slot can be told apart.
NestedPrograms ==
    { << Mov(rbx, Imm(2)), e1, Return(Address(rax)),
         Label("A"), Mov(rax, Imm(5)), e2, Mov(rcx, Imm(6)), t1,
         Label("B"), Mov(rbx, Imm(9)), t2 >> :
      e1 \in Entries("A"), e2 \in Entries("B"), t1 \in Terminators, t2 \in Terminators }

\* A value of every kind, returned at top level as a literal, from a
\* register and from a stack slot.
ReturnedValues ==
    { TypeInteger(0), TypeInteger(1), TypeInteger(42), TypeInteger(-3),
      TypeString(<<"h", "i">>), TypeString(<<>>), TypeAddress(StackPointer(1)),
      TypeAddress(rbx), TypeAddress(Reference(rcx)), Untyped }

ReturnPrograms ==
    UNION { { << Mov(d, Value(v)), Return(s), Mov(rax, Imm(5)) >> :
              d \in {rbx, StackPointer(2)},
              s \in {Value(v), Address(rbx), Address(StackPointer(2)),
                     Address(Reference(rbx)), Address(StackPointer(StackLen))} } :
            v \in ReturnedValues }

\* Programs that use the remaining commands.
SamplePrograms ==
    { << Mov(rax, Imm(5)), Mov(rbx, Address(rax)), Add(rax, Address(rax), Address(rbx)),
         Sub(rcx, Address(rax), Address(rbx)),
         LoadEffectiveAddress(StackPointer(0), rbx),
         Mov(rax, Value(TypeString(<<"{", "}", " ", "i", "t", "e", "m", "s">>))),
         Mov(rbx, Imm(3)), Syscall("printf"), Return(Address(rcx)) >>,
      << Mov(rax, Imm(5)), Mov(StackPointer(StackLen), Imm(1)), Mov(rbx, Imm(1)) >>,
      << Syscall("printf") >>,
      << Sub(rax, Address(rax), Imm(1)) >>,
      << Add(rax, Address(rax), Address(StackPointer(StackLen))) >> }

Programs == ShortPrograms \cup NestedPrograms \cup ReturnPrograms \cup SamplePrograms

----------------------------------------------------------------------------
(* The programs that exercise reads, writes, arithmetic and printf *)

Str(cs) == Value(TypeString(cs))

\* The cells that hold the pointer of a Reference.
PointerCells == {rbx, StackPointer(2)}

\* Stack slot indices: in range, at the end, past the end, huge.
SlotIndices == (0..(StackLen + 2)) \cup {ISizeMax, ISizeMin, -1}

FewSlotIndices == {0, 2, 5, StackLen - 1, StackLen, -1}

\* Command sequences after which cell X holds a value of every kind (the
\* empty one leaves it Untyped).
PointerSetups(X) ==
    { <<>>, << Mov(X, Str(<<"h", "i">>)) >>,
      << LoadEffectiveAddress(X, rcx) >>,
      << LoadEffectiveAddress(X, Reference(rcx)) >>,
      << LoadEffectiveAddress(X, Reference(StackPointer(1))) >>,
      << LoadEffectiveAddress(X, StackPointer(StackLen - 1)),
         Add(X, Address(X), Imm(1)) >>,
      << LoadEffectiveAddress(X, StackPointer(1)),
         Add(X, Address(X), Imm(-2)) >> }
    \cup { << Mov(X, Imm(n)) >> : n \in FewSlotIndices \cup {1, StackLen + 1, ISizeMax} }
    \cup { << LoadEffectiveAddress(X, StackPointer(k)) >> : k \in FewSlotIndices }

\* The commands that write to destination D.
Writers(D) ==
    { Mov(D, Imm(7)), Mov(D, Str(<<"h", "i">>)), Mov(D, Address(rcx)),
      LoadEffectiveAddress(D, StackPointer(StackLen + 6)),
      LoadEffectiveAddress(D, rax),
      Add(D, Address(rcx), Imm(2)), Sub(D, Imm(5), Address(rcx)) }

\* The pointer is set up in X, [X] is written and then read.
ReferencePrograms ==
    UNION { { setup \o << Mov(rcx, Imm(4)), w, Mov(rax, Address(Reference(X))) >> :
              setup \in PointerSetups(X), w \in Writers(Reference(X)) } :
            X \in PointerCells }

\* Writes to the stack slots.
SlotPrograms ==
    { << Mov(rcx, Imm(4)), Mov(StackPointer(n), Imm(7)),
         Mov(rax, Address(StackPointer(n))) >> : n \in SlotIndices }
    \cup UNION { { << Mov(rcx, Imm(4)), w, Mov(rax, Imm(1)) >> :
                    w \in Writers(StackPointer(n)) } : n \in FewSlotIndices }

\* The return slot of a call is written when its frame is popped.
CallPrograms ==
    { setup \o << Mov(rcx, Imm(4)), e, Return(Address(rax)),
                  Label("A"), Mov(rbx, Imm(9)), t >> :
      setup \in PointerSetups(rbx),
      e \in { CallRet(Reference(rbx), "A"), CallVoid("A"), Jmp("A") },
      t \in { Return(Imm(7)), Leave } }
    \cup { << CallRet(StackPointer(n), "A"), Return(Address(StackPointer(n))),
               Label("A"), Mov(rbx, Imm(9)), Return(Address(rbx)) >> :
            n \in FewSlotIndices }

\* Command sequences after which cell X holds an operand of every kind.
OperandSetups(X) ==
    { <<>>, << Mov(X, Str(<<"a", "b">>)) >>, << Mov(X, Str(<<>>)) >>,
      << LoadEffectiveAddress(X, rcx) >>,
      << LoadEffectiveAddress(X, Reference(rcx)) >>,
      << LoadEffectiveAddress(X, Reference(StackPointer(1))) >> }
    \cup { << Mov(X, Imm(n)) >> : n \in {0, 1, -1, 5, ISizeMax, ISizeMin} }
    \cup { << LoadEffectiveAddress(X, StackPointer(k)) >> : k \in {0, 3, ISizeMax, -1} }

\* rcx = rax + rbx and rcx = rax - rbx for operands of every pair of kinds.
ArithmeticPrograms ==
    UNION { { s1 \o s2 \o << op, Mov(rax, Imm(1)) >> :
              s1 \in OperandSetups(rax), s2 \in OperandSetups(rbx) } :
            op \in { Add(rcx, Address(rax), Address(rbx)),
                     Sub(rcx, Address(rax), Address(rbx)) } }

\* The destination of an addition or subtraction is one of its operands.
AliasPrograms ==
    UNION { { << Mov(rax, Imm(v)), Mov(rbx, Address(rax)), op, Mov(rcx, Imm(1)) >> :
              op \in { Add(rax, Address(rax), Address(rbx)),
                       Sub(rax, Address(rax), Address(rbx)),
                       Add(rbx, Address(rax), Address(rbx)),
                       Sub(rbx, Address(rbx), Address(rax)),
                       Add(rax, Address(rax), Address(rax)),
                       Add(rax, Address(rax), Imm(1)),
                       Sub(rax, Imm(1), Address(rax)) } } :
            v \in {0, 1, 5, -7, ISizeMax, ISizeMin, ISizeMax \div 2, ISizeMax \div 2 + 1} }

\* The templates of printf.
Templates ==
    { <<"{", "}", " ", "i", "t", "e", "m", "s">>,
      <<"{", "}", " ", "{", "}">>, <<"{", "}", "{", "}", "{", "}">>,
      <<"n", "o", "n", "e">>, <<>>, <<"{">>, <<"}", "{">>, <<"{", "{", "}", "}">>,
      <<"a", "{", "}">>, <<"{", " ", "}">> }

PrintfPrograms ==
    UNION { { s2 \o << Mov(rax, Str(t)), Syscall("printf"), Mov(rcx, Imm(1)) >> :
              t \in Templates } : s2 \in OperandSetups(rbx) }
    \cup UNION { { s1 \o << Mov(rbx, Imm(3)), Mov(StackPointer(1), Imm(8)) >> \o enter
                       \o << Syscall(l), Mov(rcx, Imm(1)), Leave >> :
                    s1 \in OperandSetups(rax), l \in {"printf", "exit"} } :
                  enter \in {<<>>, << CallVoid("A"), Label("A") >>} }

\* lea D A for sources A with every kind of content, and with none.
LeaPrograms ==
    UNION { { s1 \o << Mov(StackPointer(1), Address(rax)),
                       LoadEffectiveAddress(D, A), Mov(rcx, Imm(1)) >> :
              D \in {rax, rbx, StackPointer(0), StackPointer(1), Reference(rax),
                     Reference(StackPointer(1)), StackPointer(StackLen)},
              A \in {rax, Reference(rax), StackPointer(1), Reference(StackPointer(1)),
                     StackPointer(StackLen), StackPointer(-1)} } :
            s1 \in OperandSetups(rax) \cup {<< Mov(rax, Imm(7)) >>} }

\* A block that writes stack slots and registers and is then unwound; the
\* caller reads a slot the block wrote.
UnwindPrograms ==
    { << Mov(StackPointer(1), Imm(1)), Mov(rbx, Imm(2)), e,
         Mov(rcx, Address(StackPointer(2))), Return(Address(StackPointer(1))),
         Label("A"), Mov(StackPointer(2), Imm(8)), Mov(rbx, Imm(3)),
         Mov(Reference(rbx), Imm(9)), t >> :
      e \in { CallRet(rax, "A"), CallRet(StackPointer(1), "A"),
              CallRet(StackPointer(5), "A"), CallRet(Reference(rbx), "A"),
              CallVoid("A"), Jmp("A") },
      t \in { Return(Imm(7)), Return(Address(StackPointer(2))), Leave } }

DataPrograms ==
    ReferencePrograms \cup SlotPrograms \cup CallPrograms \cup ArithmeticPrograms
        \cup AliasPrograms \cup PrintfPrograms \cup LeaPrograms \cup UnwindPrograms

----------------------------------------------------------------------------
(* command.rs, address.rs, assignment.rs: parsing one line.  A &str is a  *)
(* sequence of characters; a range of a &str counts bytes of UTF-8.       *)

\* A character of two bytes in UTF-8; every other character of the model
\* has one.
EAcute == "U+00E9"

len_utf8(c) == IF c = EAcute THEN 2 ELSE 1

\* The number of characters of s after the first i that fill b bytes
\* exactly, -1 when b bytes end inside a character or past the end.
RECURSIVE CharsIn(_, _, _)
CharsIn(s, i, b) ==
    IF b = 0 THEN 0
    ELSE IF i >= Len(s) \/ len_utf8(s[i + 1]) > b THEN -1
    ELSE LET rest == CharsIn(s, i + 1, b - len_utf8(s[i + 1]))
         IN  IF rest < 0 THEN -1 ELSE rest + 1

\* &s[a..b]: a panic unless a <= b and both are character boundaries.
Slice(s, a, b) ==
    LET from == CharsIn(s, 0, a)
        to == CharsIn(s, 0, b)
    IN  IF a > b \/ from < 0 \/ to < 0
        THEN [err |-> Err("Panic"), s |-> <<>>]
        ELSE [err |-> NoError, s |-> SubSeq(s, from + 1, to)]

ParseError(message) == Error("ParseError", message, Untyped, Untyped)

\* result.push(word) unless &target[word_range] is empty
PushWord(target, st) ==
    LET word == Slice(target, st.start, st.end)
    IN  IF word.err # NoError THEN [st EXCEPT !.err = word.err]
        ELSE IF word.s # <<>> THEN [st EXCEPT !.result = Append(@, word.s)]
        ELSE st

\* The for loop of merge_quotes from the i-th character on, and the push
\* after it.
RECURSIVE MergeFrom(_, _, _)
MergeFrom(target, i, st) ==
    IF st.err # NoError THEN st
    ELSE IF i > Len(target) \/ target[i] = ";" THEN PushWord(target, st)
    ELSE IF target[i] = " " /\ ~st.open_bracket
    THEN MergeFrom(target, i + 1,
                   [PushWord(target, st) EXCEPT !.start = st.end + 1,
                                                !.end = st.end + 1])
    ELSE IF target[i] = "\""
    THEN MergeFrom(target, i + 1, [st EXCEPT !.open_bracket = ~@, !.end = @ + 1])
    ELSE MergeFrom(target, i + 1, [st EXCEPT !.end = @ + 1])

merge_quotes(target) ==
    LET st == MergeFrom(target, 1, [result |-> <<>>, start |-> 0, end |-> 0,
                                    open_bracket |-> FALSE, err |-> NoError])
    IN  [err |-> st.err, split |-> st.result]

\* str::split(c): the pieces between the occurrences of c, empty ones too
RECURSIVE split(_, _)
split(s, c) ==
    IF \A i \in 1..Len(s) : s[i] # c THEN <<s>>
    ELSE LET k == CHOOSE i \in 1..Len(s) :
                      s[i] = c /\ \A j \in 1..(i - 1) : s[j] # c
         IN  <<SubSeq(s, 1, k - 1)>> \o split(SubSeq(s, k + 1, Len(s)), c)

NonEmpty(word) == word # <<>>

\* str::split_whitespace (the space is the only whitespace of the model)
split_whitespace(s) == SelectSeq(split(s, " "), NonEmpty)

\* str::replace(c, r)
RECURSIVE replace_char(_, _, _)
replace_char(s, c, r) ==
    IF s = <<>> THEN <<>>
    ELSE (IF Head(s) = c THEN r ELSE <<Head(s)>>) \o replace_char(Tail(s), c, r)

\* [&str]::join(sep)
RECURSIVE join(_, _)
join(words, sep) ==
    IF words = <<>> THEN <<>>
    ELSE IF Len(words) = 1 THEN words[1]
    ELSE words[1] \o sep \o join(Tail(words), sep)

IsDigit(c) == \E d \in 0..9 : Digit(d) = c

\* The number a sequence of digits writes, Modulus for every number from
\* Modulus on.
RECURSIVE Magnitude(_, _)
Magnitude(s, acc) ==
    IF s = <<>> THEN acc
    ELSE LET d == CHOOSE n \in 0..9 : Digit(n) = Head(s)
             next == acc * 10 + d
         IN  Magnitude(Tail(s), IF next >= Modulus THEN Modulus ELSE next)

\* The digits of a number with its sign taken off, <<>> when s is no number.
Unsigned(s, signs) ==
    LET digits == IF s # <<>> /\ Head(s) \in signs THEN Tail(s) ELSE s
    IN  IF digits # <<>> /\ \A i \in 1..Len(digits) : IsDigit(digits[i])
        THEN digits ELSE <<>>

\* str::parse::<usize>
parse_usize(s) ==
    LET digits == Unsigned(s, {"+"})
        n == Magnitude(digits, 0)
    IN  IF digits = <<>> \/ n >= Modulus
        THEN [err |-> ParseError("Cannot parse value"), n |-> 0]
        ELSE [err |-> NoError, n |-> IF n > ISizeMax THEN n - Modulus ELSE n]

\* str::parse::<isize>
parse_isize(s) ==
    LET digits == Unsigned(s, {"+", "-"})
        n == IF s # <<>> /\ Head(s) = "-" THEN 0 - Magnitude(digits, 0) ELSE Magnitude(digits, 0)
    IN  IF digits = <<>> \/ ~InWord(n)
        THEN [err |-> ParseError("Cannot parse value"), n |-> 0]
        ELSE [err |-> NoError, n |-> n]

\* s.replace('[', " [ ").replace(']', " ] ").split_whitespace()
Bracketed(s) ==
    split_whitespace(replace_char(replace_char(s, "[", <<" ", "[", " ">>),
                                  "]", <<" ", "]", " ">>))

RegisterNamed(s) ==
    CHOOSE r \in Registers : RegisterChars(r) = s

RECURSIVE Address_from_str(_)
Address_from_str(s) ==
    LET words == Bracketed(s)
    IN  IF split_whitespace(s) = << <<"s", "p">> >>
        THEN [err |-> NoError, a |-> StackPointer(0)]
        ELSE IF Len(words) >= 2 /\ words[1] = <<"[">> /\ words[Len(words)] = <<"]">>
        THEN LET address == Address_from_str(join(SubSeq(words, 2, Len(words) - 1), <<>>))
             IN  IF address.err # NoError \/ address.a.kind = "Reference" THEN address
                 ELSE [err |-> NoError, a |-> Reference(address.a)]
        ELSE IF /\ Len(words) = 4
                /\ words[1] = <<"s", "p">> /\ words[2] = <<"[">> /\ words[4] = <<"]">>
        THEN LET index == parse_usize(words[3])
             IN  [err |-> index.err,
                  a |-> IF index.err = NoError THEN StackPointer(index.n) ELSE NoAddress]
        ELSE IF \E r \in Registers : RegisterChars(r) = s
        THEN [err |-> NoError, a |-> Register(RegisterNamed(s))]
        ELSE [err |-> ParseError("Address unknown"), a |-> NoAddress]

Assignment_from_str(s) ==
    LET destination == Address_from_str(s)
        value == parse_isize(s)
        line == split(replace_char(s, "\"", <<" ", "\"", " ">>), " ")
        n == Len(line)
    IN  IF destination.err = NoError
        THEN [err |-> NoError, as |-> Address(destination.a)]
        ELSE IF value.err = NoError
        THEN [err |-> NoError, as |-> Value(TypeInteger(value.n))]
        ELSE IF n >= 2 /\ line[1] = <<"\"">> /\ line[n] = <<"\"">>
        THEN [err |-> NoError, as |-> Str(join(SubSeq(line, 2, n - 1), <<" ">>))]
        ELSE IF n >= 4 /\ line[2] = <<"\"">> /\ line[n - 1] = <<"\"">>
        THEN [err |-> NoError, as |-> Str(join(SubSeq(line, 3, n - 2), <<" ">>))]
        ELSE [err |-> ParseError("cannot be parsed as an assignment"), as |-> NoOperand]

\* JumpDestination::from_str: the label is the text; it never fails.
JumpDestination_from_str(s) == s

NoCommand == Cmd("", NoAddress, NoOperand, NoOperand, NoAddress, <<>>)

\* The first error of the results, NoError when all are Ok (the ? operator).
RECURSIVE FirstError(_)
FirstError(results) ==
    IF results = <<>> THEN NoError
    ELSE IF Head(results).err # NoError THEN Head(results).err
    ELSE FirstError(Tail(results))

Parsed(results, command) ==
    IF FirstError(results) # NoError
    THEN [err |-> FirstError(results), command |-> NoCommand]
    ELSE [err |-> NoError, command |-> command]

Unknown(message) == [err |-> ParseError(message), command |-> NoCommand]

\* Command::Label(label_name[0..label_name.chars().count() - 1].to_string())
LabelNamed(label_name) ==
    Parsed(<<Slice(label_name, 0, Len(label_name) - 1)>>,
           Label(Slice(label_name, 0, Len(label_name) - 1).s))

\* Command::from_str after merge_quotes: the production of the tokens.
Production(tokens) ==
    LET instruction == tokens[1]
        ad(i) == Address_from_str(tokens[i])
        as(i) == Assignment_from_str(tokens[i])
        jd(i) == JumpDestination_from_str(tokens[i])
    IN  IF Len(tokens) = 1
        THEN CASE instruction = <<"l", "e", "a", "v", "e">> -> Parsed(<<>>, Leave)
               [] instruction # <<"l", "e", "a", "v", "e">> /\ instruction[Len(instruction)] = ":" ->
                      LabelNamed(instruction)
               [] OTHER -> Unknown("Unknown instruction")
        ELSE IF Len(tokens) = 2
        THEN CASE instruction = <<"s", "y", "s", "c", "a", "l", "l">> -> Parsed(<<>>, Syscall(jd(2)))
               [] instruction = <<"j", "m", "p">> -> Parsed(<<>>, Jmp(jd(2)))
               [] instruction = <<"r", "e", "t">> -> Parsed(<<as(2)>>, Return(as(2).as))
               [] instruction = <<"c", "a", "l", "l">> -> Parsed(<<>>, CallVoid(jd(2)))
               [] OTHER -> Unknown("Unknown instruction")
        ELSE IF Len(tokens) = 3
        THEN CASE instruction = <<"l", "e", "a">> ->
                      Parsed(<<ad(2), ad(3)>>, LoadEffectiveAddress(ad(2).a, ad(3).a))
               [] instruction = <<"m", "o", "v">> -> Parsed(<<ad(2), as(3)>>, Mov(ad(2).a, as(3).as))
               [] instruction = <<"c", "a", "l", "l">> -> Parsed(<<ad(2)>>, CallRet(ad(2).a, jd(3)))
               [] OTHER -> Unknown("Unknown instruction")
        ELSE IF Len(tokens) = 4
        THEN CASE instruction = <<"a", "d", "d">> ->
                      Parsed(<<ad(2), as(3), as(4)>>, Add(ad(2).a, as(3).as, as(4).as))
               [] instruction = <<"s", "u", "b">> ->
                      Parsed(<<ad(2), as(3), as(4)>>, Sub(ad(2).a, as(3).as, as(4).as))
               [] OTHER -> Unknown("Unknown instruction")
        ELSE Unknown("Unknown size of instructions")

\* The lines parsed: words joined by one space.  A word has no space
\* outside quotes and no semicolon.
Mnemonics ==
    { <<"l", "e", "a", "v", "e">>, <<"s", "y", "s", "c", "a", "l", "l">>,
      <<"j", "m", "p">>, <<"r", "e", "t">>, <<"c", "a", "l", "l">>,
      <<"l", "e", "a">>, <<"m", "o", "v">>, <<"a", "d", "d">>,
      <<"s", "u", "b">> }

FirstWords ==
    Mnemonics \cup
    { <<"A", ":">>, <<"l", "e", "a", "v", "e", ":">>, <<":">>,
      <<"n", "o", "p">>, <<EAcute>>, <<EAcute, ":">>, <<"a", EAcute, ":">>,
      <<EAcute, "a", ":">>, <<EAcute, ":", ":">>, <<EAcute, "a", ":", ":">> }

OperandWords ==
    { <<"r", "a", "x">>, <<"A">>, <<"5">>,
      <<"[", "s", "p", "[", "1", "]", "]">>, <<"\"", "a", " ", "b", "\"">> }

MaxWords == 5

LineWords ==
    UNION { { <<first>> \o rest : first \in FirstWords, rest \in [1..n -> OperandWords] } :
            n \in 0..(MaxWords - 1) }
        \cup {<<>>}

\* No line is being parsed.
NoParse == [stage |-> "idle", words |-> <<>>, line |-> <<>>, tokens |-> <<>>,
            err |-> NoError, command |-> NoCommand]

----------------------------------------------------------------------------
(* interpreter.rs: Interpreter::from_str; main.rs: run() *)

NoStep == [op |-> "", at |-> 0, popped |-> FALSE, frame |-> NoFrame, value |-> Untyped]

StepOf(c, popped, frame, value) ==
    [op |-> c.op, at |-> program_pointer, popped |-> popped, frame |-> frame,
     value |-> value]

Init ==
    /\ source_code \in Programs
    /\ program_pointer = 0
    /\ memory = [rax |-> Untyped, rbx |-> Untyped, rcx |-> Untyped,
                 stack_frame |-> <<>>, stack |-> [n \in 1..StackLen |-> Untyped]]
    /\ phase = "constructed"
    /\ exit_code = 0
    /\ error = NoError
    /\ output = <<>>
    /\ executed = 0
    /\ calls = <<>>
    /\ last = NoStep
    /\ written = {}
    /\ follow = FALSE
    /\ parser = NoParse

\* interpreter.semantic_check()?
SemanticCheck ==
    /\ phase = "constructed"
    /\ error' = semantic_check(source_code)
    /\ phase' = IF semantic_check(source_code) = NoError THEN "running" ELSE "error"
    /\ UNCHANGED <<source_code, program_pointer, memory, exit_code, output,
                   executed, calls, last, written, follow, parser>>

\* The frame a Return or a Leave would pop is one the model dropped.
Unfollowed ==
    /\ memory.stack_frame # <<>>
    /\ memory.stack_frame[Len(memory.stack_frame)] = Elided

\* The command the driver loop fetches.
Fetched(op) ==
    /\ phase = "running"
    /\ ~Unfollowed
    /\ program_pointer < Len(source_code)
    /\ source_code[program_pointer + 1].op = op

Command == source_code[program_pointer + 1]

\* An iteration that counts the command that failed.
AbortAdvancing(mem, e) ==
    /\ memory' = mem
    /\ phase' = IF e.kind = "Panic" THEN "panic" ELSE "error"
    /\ error' = e
    /\ program_pointer' = program_pointer + 1
    /\ UNCHANGED <<source_code, exit_code>>

\* The iteration ends in Err or in a panic, with the memory as it then is.
Abort(mem, e) ==
    /\ memory' = mem
    /\ phase' = IF e.kind = "Panic" THEN "panic" ELSE "error"
    /\ error' = e
    /\ UNCHANGED <<source_code, program_pointer, exit_code>>

\* An iteration that does not advance the program pointer.
ContinueInPlace(mem, pc) ==
    /\ memory' = mem
    /\ program_pointer' = pc
    /\ UNCHANGED <<source_code, phase, exit_code, error>>

\* An iteration that skips a command.
ContinueSkipping(mem, pc) ==
    /\ memory' = mem
    /\ program_pointer' = pc + 2
    /\ UNCHANGED <<source_code, phase, exit_code, error>>

\* The iteration ends with interpreter.program_pointer += 1.
Continue(mem, pc) ==
    /\ memory' = mem
    /\ program_pointer' = pc + 1
    /\ UNCHANGED <<source_code, phase, exit_code, error>>

\* mutate returns a holding value: the exit code is set and the loop breaks.
Break(holding_value) ==
    /\ phase' = "halted"
    /\ exit_code' = ExitCodeOf(holding_value)
    /\ UNCHANGED <<source_code, program_pointer, memory, error>>

\* The register or stack slot Memory::set(destination, ..) stores in when
\* it returns Ok.
Cell(mem, destination) ==
    IF destination.kind # "Reference" THEN destination
    ELSE StackPointer(
             usize_from(mem, Memory_get(mem, AssignmentFrom(Destination(destination))).v).n)

\* The cells the iteration has stored in: the destination of a mov, add,
\* sub or lea that went on, the return slot of the frame a ret popped.
Stored(popped, frame) ==
    IF phase' # "running" THEN {}
    ELSE IF Command.op \in {"Mov", "Add", "Sub", "LoadEffectiveAddress"}
    THEN {Cell(memory, Command.destination)}
    ELSE IF Command.op = "Return" /\ popped /\ frame.destination # NoAddress
    THEN {Cell(RestoreRegisters(memory, frame), frame.destination)}
    ELSE {}

\* What every iteration records.
Count(popped, frame, value) ==
    /\ executed' = IF follow THEN executed ELSE executed + 1
    /\ last' = IF follow THEN last ELSE StepOf(Command, popped, frame, value)
    /\ written' = IF follow THEN written ELSE written \cup Stored(popped, frame)
    /\ UNCHANGED <<follow, parser>>

----------------------------------------------------------------------------
(* One iteration of the driver loop per command: command.execute(..)?, *)
(* then interpreter.mutate(..)?, then program_pointer += 1             *)

ExecMov ==
    /\ Fetched("Mov")
    /\ LET g == Memory_get(memory, Command.operand1)
           r == Memory_set(memory, Command.destination, g.v)
       IN  IF g.err # NoError THEN Abort(memory, g.err)
           ELSE IF r.err # NoError THEN Abort(r.mem, r.err)
           ELSE Continue(r.mem, program_pointer)
    /\ Count(FALSE, NoFrame, Untyped)
    /\ UNCHANGED <<output, calls>>

\* An addition that clears the destination before it reads the operands.
ExecAddClearsFirst ==
    /\ Fetched("Add")
    /\ LET cleared == Memory_set(memory, Command.destination, TypeInteger(0))
           g1 == Memory_get(cleared.mem, Command.operand1)
           g2 == Memory_get(cleared.mem, Command.operand2)
       IN  IF cleared.err # NoError THEN Abort(cleared.mem, cleared.err)
           ELSE IF g1.err # NoError THEN Abort(memory, g1.err)
           ELSE IF g2.err # NoError THEN Abort(memory, g2.err)
           ELSE \E result \in Type_add(g1.v, g2.v) :
                   LET r == Memory_set(memory, Command.destination, result.v)
                   IN  IF result.err # NoError THEN Abort(memory, result.err)
                       ELSE IF r.err # NoError THEN Abort(r.mem, r.err)
                       ELSE Continue(r.mem, program_pointer)
    /\ Count(FALSE, NoFrame, Untyped)
    /\ UNCHANGED <<output, calls>>

ExecAdd ==
    /\ Fetched("Add")
    /\ LET g1 == Memory_get(memory, Command.operand1)
           g2 == Memory_get(memory, Command.operand2)
       IN  IF g1.err # NoError THEN Abort(memory, g1.err)
           ELSE IF g2.err # NoError THEN Abort(memory, g2.err)
           ELSE \E result \in Type_add(g1.v, g2.v) :
                   LET r == Memory_set(memory, Command.destination, result.v)
                   IN  IF result.err # NoError THEN Abort(memory, result.err)
                       ELSE IF r.err # NoError THEN Abort(r.mem, r.err)
                       ELSE Continue(r.mem, program_pointer)
    /\ Count(FALSE, NoFrame, Untyped)
    /\ UNCHANGED <<output, calls>>

ExecSub ==
    /\ Fetched("Sub")
    /\ LET g1 == Memory_get(memory, Command.operand1)
           g2 == Memory_get(memory, Command.operand2)
       IN  IF g1.err # NoError THEN Abort(memory, g1.err)
           ELSE IF g2.err # NoError THEN Abort(memory, g2.err)
           ELSE \E result \in Type_sub(g1.v, g2.v) :
                   LET r == Memory_set(memory, Command.destination, result.v)
                   IN  IF result.err # NoError THEN Abort(memory, result.err)
                       ELSE IF r.err # NoError THEN Abort(r.mem, r.err)
                       ELSE Continue(r.mem, program_pointer)
    /\ Count(FALSE, NoFrame, Untyped)
    /\ UNCHANGED <<output, calls>>

\* A lea that reads its source before it stores the address.
ExecLoadEffectiveAddressReads ==
    /\ Fetched("LoadEffectiveAddress")
    /\ LET g == Memory_get(memory, Address(Command.source))
           r == Memory_set(memory, Command.destination, TypeAddress(Command.source))
       IN  IF g.err # NoError THEN Abort(memory, g.err)
           ELSE IF r.err # NoError THEN Abort(r.mem, r.err)
           ELSE Continue(r.mem, program_pointer)
    /\ Count(FALSE, NoFrame, Untyped)
    /\ UNCHANGED <<output, calls>>

ExecLoadEffectiveAddress ==
    /\ Fetched("LoadEffectiveAddress")
    /\ LET r == Memory_set(memory, Command.destination, TypeAddress(Command.source))
       IN  IF r.err # NoError THEN Abort(r.mem, r.err)
           ELSE Continue(r.mem, program_pointer)
    /\ Count(FALSE, NoFrame, Untyped)
    /\ UNCHANGED <<output, calls>>

\* execute pushes the frame, mutate looks the label up.
EnterLabel(entered_with_jmp, destination) ==
    /\ follow \/ Len(memory.stack_frame) < MaxFrames
    /\ LET frame == StackFrame(program_pointer, entered_with_jmp, destination,
                               register_state(memory), Len(calls) + 1)
           mem == [memory EXCEPT !.stack_frame = Window(PushFrame(@, frame))]
           jump == search_label_jump(source_code, Command.label)
       IN  IF jump.err # NoError THEN Abort(mem, jump.err)
           ELSE Continue(mem, jump.pc)
    /\ calls' = IF follow THEN calls
                ELSE Append(calls, [at |-> program_pointer, rax |-> memory.rax,
                                    rbx |-> memory.rbx, rcx |-> memory.rcx])
    /\ Count(FALSE, NoFrame, Untyped)
    /\ UNCHANGED output

ExecCallRet == Fetched("CallRet") /\ EnterLabel(FALSE, Command.destination)

ExecCallVoid == Fetched("CallVoid") /\ EnterLabel(FALSE, NoAddress)

ExecJmp == Fetched("Jmp") /\ EnterLabel(TRUE, NoAddress)

ExecLabel ==
    /\ Fetched("Label")
    /\ Continue(memory, program_pointer)
    /\ Count(FALSE, NoFrame, Untyped)
    /\ UNCHANGED <<output, calls>>

\* The text printf prints for a format.
final_str(format, mem) == Replace(format, to_string_raw(mem.rbx))

\* A printf that prints the raw text of whatever rax holds.
ExecSyscallPrintsAnything ==
    /\ Fetched("Syscall")
    /\ IF Command.label # "printf"
       THEN Continue(memory, program_pointer) /\ UNCHANGED output
       ELSE /\ Continue(memory, program_pointer)
            /\ output' = Append(output, final_str(to_string_raw(memory.rax), memory))
    /\ Count(FALSE, NoFrame, Untyped)
    /\ UNCHANGED calls

ExecSyscall ==
    /\ Fetched("Syscall")
    /\ IF Command.label # "printf"
       THEN Continue(memory, program_pointer) /\ UNCHANGED output
       ELSE IF memory.rax.t = "String"
       THEN /\ Continue(memory, program_pointer)
            /\ output' = Append(output, final_str(memory.rax.s, memory))
       ELSE Abort(memory, Err("WrongType")) /\ UNCHANGED output
    /\ Count(FALSE, NoFrame, Untyped)
    /\ UNCHANGED calls

\* A return that puts the value in rax when the frame has no return slot.
WriteReturnToRax(mem, frame, value) ==
    IF frame.destination # NoAddress THEN Memory_set(mem, frame.destination, value)
    ELSE Memory_set(mem, rax, value)

\* A return that drops the value.
WriteReturnDropped(mem, frame, value) == [err |-> NoError, mem |-> mem]

\* if let Some(destination) = stack_frame.destination { set(..)? }
WriteReturn(mem, frame, value) ==
    IF frame.destination # NoAddress THEN Memory_set(mem, frame.destination, value)
    ELSE [err |-> NoError, mem |-> mem]

ExecReturn ==
    /\ Fetched("Return")
    /\ LET value == Memory_get(memory, Command.operand1)
           p == PopFrame(memory.stack_frame)
           restored == RestoreRegisters([memory EXCEPT !.stack_frame = p.rest], p.frame)
           w == WriteReturn(restored, p.frame, value.v)
       IN  IF value.err # NoError
           THEN Abort(memory, value.err) /\ Count(FALSE, NoFrame, Untyped)
           ELSE IF memory.stack_frame = <<>>
           THEN Break(value.v) /\ Count(FALSE, NoFrame, value.v)
           ELSE IF w.err # NoError
           THEN Abort(w.mem, w.err) /\ Count(TRUE, p.frame, value.v)
           ELSE Continue(w.mem, p.frame.return_address) /\ Count(TRUE, p.frame, value.v)
    /\ UNCHANGED <<output, calls>>

\* A leave that does not look at the return slot of the frame.
ExecLeaveUnchecked ==
    /\ Fetched("Leave")
    /\ LET p == PopFrame(memory.stack_frame)
           popped == [memory EXCEPT !.stack_frame = p.rest]
       IN  IF memory.stack_frame = <<>>
           THEN Break(TypeInteger(0)) /\ Count(FALSE, NoFrame, TypeInteger(0))
           ELSE /\ Continue(RestoreRegisters(popped, p.frame), p.frame.return_address)
                /\ Count(TRUE, p.frame, Untyped)
    /\ UNCHANGED <<output, calls>>

\* A leave that has no result at top level: the loop goes on.
ExecLeaveNoResult ==
    /\ Fetched("Leave")
    /\ LET p == PopFrame(memory.stack_frame)
           popped == [memory EXCEPT !.stack_frame = p.rest]
       IN  IF memory.stack_frame = <<>>
           THEN Continue(memory, program_pointer) /\ Count(FALSE, NoFrame, Untyped)
           ELSE IF p.frame.destination # NoAddress
           THEN Abort(popped, Err("Panic")) /\ Count(TRUE, p.frame, Untyped)
           ELSE /\ Continue(RestoreRegisters(popped, p.frame), p.frame.return_address)
                /\ Count(TRUE, p.frame, Untyped)
    /\ UNCHANGED <<output, calls>>

ExecLeave ==
    /\ Fetched("Leave")
    /\ LET p == PopFrame(memory.stack_frame)
           popped == [memory EXCEPT !.stack_frame = p.rest]
       IN  IF memory.stack_frame = <<>>
           THEN Break(TypeInteger(0)) /\ Count(FALSE, NoFrame, TypeInteger(0))
           ELSE IF p.frame.destination # NoAddress
           THEN Abort(popped, Err("Panic")) /\ Count(TRUE, p.frame, Untyped)
           ELSE /\ Continue(RestoreRegisters(popped, p.frame), p.frame.return_address)
                /\ Count(TRUE, p.frame, Untyped)
    /\ UNCHANGED <<output, calls>>

\* The program pointer addresses no command: the while loop ends.
Finish ==
    /\ phase = "running"
    /\ program_pointer >= Len(source_code)
    /\ phase' = "done"
    /\ UNCHANGED <<source_code, program_pointer, memory, exit_code, error, output,
                   executed, calls, last, written, follow, parser>>

Next ==
    \/ SemanticCheck
    \/ ExecMov
    \/ ExecAdd
    \/ ExecSub
    \/ ExecLoadEffectiveAddress
    \/ ExecCallRet
    \/ ExecCallVoid
    \/ ExecJmp
    \/ ExecLabel
    \/ ExecSyscall
    \/ ExecReturn
    \/ ExecLeave
    \/ Finish

Spec == Init /\ [][Next]_vars

\* The same machine on the programs about data.
DataInit ==
    /\ source_code \in DataPrograms
    /\ program_pointer = 0
    /\ memory = [rax |-> Untyped, rbx |-> Untyped, rcx |-> Untyped,
                 stack_frame |-> <<>>, stack |-> [n \in 1..StackLen |-> Untyped]]
    /\ phase = "constructed"
    /\ exit_code = 0
    /\ error = NoError
    /\ output = <<>>
    /\ executed = 0
    /\ calls = <<>>
    /\ last = NoStep
    /\ written = {}
    /\ follow = FALSE
    /\ parser = NoParse

DataSpec == DataInit /\ [][Next]_vars

\* The programs followed past MaxFrames frames: none of them adds or prints
\* inside a block it can enter again.
LoopLen == 3

LoopPrograms ==
    UNION {[1..n -> Alphabet] : n \in 0..LoopLen} \cup SamplePrograms
        \cup { << Label("A"), Mov(rax, Imm(5)), CallVoid("B"), Leave,
                  Label("B"), Jmp("A"), Leave >>,
               << CallRet(rax, "A"), Return(Address(rax)),
                  Label("A"), CallVoid("B"), Return(Imm(7)),
                  Label("B"), Leave >> }

LoopInit ==
    /\ source_code \in LoopPrograms
    /\ program_pointer = 0
    /\ memory = [rax |-> Untyped, rbx |-> Untyped, rcx |-> Untyped,
                 stack_frame |-> <<>>, stack |-> [n \in 1..StackLen |-> Untyped]]
    /\ phase = "constructed"
    /\ exit_code = 0
    /\ error = NoError
    /\ output = <<>>
    /\ executed = 0
    /\ calls = <<>>
    /\ last = NoStep
    /\ written = {}
    /\ follow = TRUE
    /\ parser = NoParse

\* run() is one thread: each iteration of its loop is taken when it can be.
LoopSpec == LoopInit /\ [][Next]_vars /\ WF_vars(Next)

\* Command::from_str on one line.
ParseInit ==
    /\ source_code = <<>>
    /\ program_pointer = 0
    /\ memory = [rax |-> Untyped, rbx |-> Untyped, rcx |-> Untyped,
                 stack_frame |-> <<>>, stack |-> [n \in 1..StackLen |-> Untyped]]
    /\ phase = "constructed"
    /\ exit_code = 0
    /\ error = NoError
    /\ output = <<>>
    /\ executed = 0
    /\ calls = <<>>
    /\ last = NoStep
    /\ written = {}
    /\ follow = FALSE
    /\ \E words \in LineWords :
           parser = [NoParse EXCEPT !.stage = "line", !.words = words,
                                    !.line = join(words, <<" ">>)]

\* let split = merge_quotes(s);
MergeQuotes ==
    /\ parser.stage = "line"
    /\ LET m == merge_quotes(parser.line)
       IN  parser' = [parser EXCEPT !.stage = IF m.err = NoError THEN "split" ELSE "panic",
                                    !.tokens = m.split, !.err = m.err]
    /\ UNCHANGED <<source_code, program_pointer, memory, phase, exit_code, error,
                   output, executed, calls, last, written, follow>>

\* The rest of Command::from_str: the match on the tokens.
SelectProduction ==
    /\ parser.stage = "split"
    /\ LET r == Production(parser.tokens)
       IN  parser' = [parser EXCEPT
                          !.stage = IF r.err = NoError THEN "command"
                                    ELSE IF r.err.kind = "Panic" THEN "panic"
                                    ELSE "error",
                          !.err = r.err, !.command = r.command]
    /\ UNCHANGED <<source_code, program_pointer, memory, phase, exit_code, error,
                   output, executed, calls, last, written, follow>>

ParseNext == MergeQuotes \/ SelectProduction

ParseSpec == ParseInit /\ [][ParseNext]_vars

----------------------------------------------------------------------------
(* Properties of call, jump, return and leave *)

\* The step is an iteration of the driver loop that popped a frame.
Pops == executed' = executed + 1 /\ last'.popped

\* The value the operand of the command about to run has.
OperandValue == Memory_get(memory, source_code[program_pointer + 1].operand1).v

\* The stack slot a return slot [X] names when the frame is popped: X is
\* read after the registers are back as call recorded them.
ReferredSlot(d, call) ==
    LET pointer == IF d.inner = "Register" THEN call[d.reg]
                   ELSE memory.stack[d.index + 1]
    IN  IF pointer.t = "Integer" THEN pointer.i ELSE pointer.a.index

\* The location d of memory mem holds value.
Holds(mem, d, call, value) ==
    CASE d.kind = "Register" -> RegisterOf(mem, d.reg) = value
      [] d.kind = "StackPointer" -> mem.stack[d.index + 1] = value
      [] OTHER -> mem.stack[ReferredSlot(d, call) + 1] = value

\* C1: when a ret pops the frame of a value-returning call `call D L` and
\* completes, execution resumes at the command after that call, D holds the
\* value the operand of ret had just before the ret, and every register
\* other than D holds the value it had when the call was executed.
C1_CallReturnsValue ==
    [][ (Pops /\ last'.op = "Return" /\ last'.frame.destination # NoAddress
              /\ phase' = "running")
        => LET call == calls[last'.frame.id]
               d == last'.frame.destination
           IN  /\ source_code[call.at + 1].op = "CallRet"
               /\ source_code[call.at + 1].destination = d
               /\ program_pointer' = call.at + 1
               /\ Holds(memory', d, call, OperandValue)
               /\ \A r \in Registers :
                     d # Register(r) => RegisterOf(memory', r) = call[r] ]_vars

\* A ret has written the value through a reference return slot and resumed
\* inside an outer block, whose frame is still live.
C1_Witness ==
    /\ phase = "running"
    /\ last.op = "Return" /\ last.popped
    /\ last.frame.destination.kind = "Reference"
    /\ memory.stack_frame # <<>>
    /\ memory.stack[3] = last.value

\* The ids of the frames of a collection.
FrameIds(frames) == {frames[k].id : k \in 1..Len(frames)}

\* The frame pushed last among the live ones.
Newest(frames) == CHOOSE i \in FrameIds(frames) : \A j \in FrameIds(frames) : j <= i

\* C2: every Return or Leave that pops a frame pops the frame pushed most
\* recently among those not yet popped, leaves the others as they are, and
\* (when it completes) resumes after the command that pushed that frame.
C2_FramesAreLIFO ==
    [][ Pops
        => /\ last'.frame.id = Newest(memory.stack_frame)
           /\ memory'.stack_frame =
                 SubSeq(memory.stack_frame, 1, Len(memory.stack_frame) - 1)
           /\ FrameIds(memory'.stack_frame) =
                 FrameIds(memory.stack_frame) \ {Newest(memory.stack_frame)}
           /\ phase' = "running" =>
                 program_pointer' = calls[Newest(memory.stack_frame)].at + 1 ]_vars

\* The terminator of the inner block B has popped the second frame pushed
\* while the frame of the outer block A is live, and resumed inside A.
C2_Witness ==
    /\ phase = "running"
    /\ last.popped /\ last.frame.id = 2
    /\ Len(memory.stack_frame) = 1 /\ memory.stack_frame[1].id = 1
    /\ program_pointer = calls[2].at + 1
    /\ calls[2].at > calls[1].at

\* C3: a frame made by jmp is popped with the registers left as they are
\* and execution resumes after the jmp; a frame made by a call is popped
\* with the registers set back to those of the call (the register that is
\* the return slot then takes the returned value).
C3_JumpKeepsRegisters ==
    [][ (Pops /\ phase' = "running")
        => LET frame == last'.frame
               call == calls[frame.id]
           IN  /\ program_pointer' = call.at + 1
               /\ frame.entered_with_jmp = (source_code[call.at + 1].op = "Jmp")
               /\ IF source_code[call.at + 1].op = "Jmp"
                  THEN register_state(memory') = register_state(memory)
                  ELSE \A r \in Registers :
                          frame.destination # Register(r)
                             => RegisterOf(memory', r) = call[r] ]_vars

\* A frame made by jmp has been popped and a register still holds what the
\* block wrote, which is not what it held at the jmp.
C3_Witness ==
    /\ phase = "running"
    /\ last.popped /\ last.frame.entered_with_jmp
    /\ memory.rax # last.frame.register_state[1]
    /\ memory.rax = TypeInteger(5)

----------------------------------------------------------------------------
(* Properties of the semantic check *)

IsEntry(c) == c.op \in {"CallRet", "CallVoid", "Jmp"}

\* The terminators a block must reach, by the command that enters it.
Required(c) == IF c.op = "CallRet" THEN {"Return"} ELSE {"Return", "Leave"}

\* The error due when the block entered by c lacks its terminator.
MissingFor(c) ==
    IF c.op = "CallRet" THEN ReturnMissing(c.label) ELSE LeaveMissing(c.label)

Defined(code, l) == \E i \in 1..Len(code) : code[i] = Label(l)

\* The place (from 1) of the first definition of l.
FirstDef(code, l) ==
    CHOOSE i \in 1..Len(code) :
        code[i] = Label(l) /\ \A j \in 1..(i - 1) : code[j] # Label(l)

\* Where the block of l ends: the first definition of another label after
\* FirstDef, or the place after the last command.
BlockEnd(code, l) ==
    LET others == {j \in (FirstDef(code, l) + 1)..Len(code) :
                      code[j].op = "Label" /\ code[j].label # l}
    IN  IF others = {} THEN Len(code) + 1
        ELSE CHOOSE j \in others : \A k \in others : j <= k

\* The block of l holds one of the terminators ops.
ReachesTerminator(code, l, ops) ==
    \E j \in FirstDef(code, l)..(BlockEnd(code, l) - 1) : code[j].op \in ops

\* The block of l runs into another label definition before a terminator.
RunsIntoLabel(code, l, ops) ==
    /\ Defined(code, l)
    /\ ~ReachesTerminator(code, l, ops)
    /\ BlockEnd(code, l) <= Len(code)

\* The block of l ends, at another label or at the end of the program,
\* before a terminator.
LacksTerminator(code, l, ops) ==
    Defined(code, l) /\ ~ReachesTerminator(code, l, ops)

\* C4 (as claimed): once the check has run, every call or jump whose block
\* ends (at another label definition or at the end of the program) before
\* its required terminator has made the check fail, with nothing executed
\* and with the missing-terminator error naming its label, unless an earlier
\* call or jump of the program is at fault itself.
C4_MissingTerminatorRejected ==
    phase # "constructed" =>
        \A n \in 1..Len(source_code) :
            LET c == source_code[n]
            IN  (IsEntry(c) /\ LacksTerminator(source_code, c.label, Required(c)))
                => /\ phase = "error"
                   /\ executed = 0
                   /\ \/ error = MissingFor(c)
                      \/ \E m \in 1..(n - 1) :
                            LET b == source_code[m]
                            IN  /\ IsEntry(b)
                                /\ \/ ~Defined(source_code, b.label)
                                   \/ LacksTerminator(source_code, b.label, Required(b))

\* The places of the calls and jumps that name a label with no definition.
UndefinedUses(code) ==
    {n \in 1..Len(code) : IsEntry(code[n]) /\ ~Defined(code, code[n].label)}

\* The places of the calls and jumps whose block runs into another label.
RunIntoUses(code) ==
    {n \in 1..Len(code) :
        IsEntry(code[n]) /\ RunsIntoLabel(code, code[n].label, Required(code[n]))}

Least(S) == CHOOSE n \in S : \A m \in S : n <= m

\* No label resolution fails once commands execute.
NoRunTimeLabelFault == error.kind = "LabelNotFound" => executed = 0

\* C5 (as claimed): a program with a call or jump that names an undefined
\* label fails the check with label-not-found before anything executes, and
\* label resolution never fails at run time.
C5_UndefinedLabelIsLabelNotFound ==
    phase # "constructed" =>
        /\ UndefinedUses(source_code) # {}
              => phase = "error" /\ executed = 0 /\ error.kind = "LabelNotFound"
        /\ NoRunTimeLabelFault

\* C5 (amended): a program with a call or jump that names an undefined label
\* fails the check before anything executes.  The error is label-not-found
\* for the first such call or jump, unless a call or jump before it enters
\* a block that runs into another label definition before its terminator:
\* then it is the missing-terminator error of the first of those.  Label
\* resolution never fails at run time.
C5_UndefinedLabelRejected ==
    phase # "constructed" =>
        /\ UndefinedUses(source_code) # {}
              => /\ phase = "error"
                 /\ executed = 0
                 /\ LET u == Least(UndefinedUses(source_code))
                        before == {m \in RunIntoUses(source_code) : m < u}
                    IN  IF before = {}
                        THEN error = LabelNotFound(source_code[u].label)
                        ELSE error = MissingFor(source_code[Least(before)])
        /\ NoRunTimeLabelFault

\* The check has rejected a program for a jump to an undefined label that
\* the run would never have reached.
C5_Witness ==
    /\ phase = "error"
    /\ error = LabelNotFound("C")
    /\ Len(source_code) >= 2
    /\ source_code[1] = Leave
    /\ source_code[2] = Jmp("C")

----------------------------------------------------------------------------
(* Properties of return and leave by the kind of frame *)

\* The live frame pushed last.
Innermost(frames) == CHOOSE k \in 1..Len(frames) : frames[k].id = Newest(frames)

\* The command that pushed frame.
Pusher(frame) == source_code[calls[frame.id].at + 1]

\* Exactly the live frames of void calls and jumps have no return slot, and
\* the frame of `call D L` has the return slot D.
VoidFramesHaveNoSlot ==
    \A k \in 1..Len(memory.stack_frame) :
        LET frame == memory.stack_frame[k]
        IN  /\ Pusher(frame).op \in {"CallVoid", "Jmp"} <=> frame.destination = NoAddress
            /\ Pusher(frame).op = "CallRet" => frame.destination = Pusher(frame).destination


\* C6 (as claimed): a frame of a void call or jump has no return slot, and
\* a ret that pops such a frame ends the run with an error.
C6_ReturnFromVoidRejected ==
    /\ VoidFramesHaveNoSlot
    /\ (last.op = "Return" /\ last.popped /\ last.frame.destination = NoAddress)
          => phase \in {"error", "panic"}

\* C6 (amended): a frame of a void call or jump has no return slot, and a
\* ret that pops such a frame drops the value: no stack slot changes, the
\* registers are those of the call (call) or stay as they are (jmp), and the
\* run goes on after the call or jump with no error.
C6_ReturnFromVoidDropsValue ==
    [][ /\ VoidFramesHaveNoSlot'
        /\ (Pops /\ last'.op = "Return" /\ last'.frame.destination = NoAddress)
              => LET call == calls[last'.frame.id]
                 IN  /\ Pusher(last'.frame).op \in {"CallVoid", "Jmp"}
                     /\ phase' = "running" /\ error' = NoError
                     /\ program_pointer' = call.at + 1
                     /\ memory'.stack = memory.stack
                     /\ register_state(memory') =
                           IF Pusher(last'.frame).op = "Jmp" THEN register_state(memory)
                           ELSE <<call.rax, call.rbx, call.rcx>> ]_vars

\* `ret 7` has popped the frame of a void call and the run goes on with 7
\* in no register.
C6_Witness ==
    /\ phase = "running"
    /\ last.op = "Return" /\ last.popped /\ last.frame.destination = NoAddress
    /\ ~last.frame.entered_with_jmp
    /\ last.value = TypeInteger(7)
    /\ \A r \in Registers : RegisterOf(memory, r) # TypeInteger(7)

\* C7: a leave that finds a return slot in the innermost frame stops the
\* run as faulted; the registers are not restored and the program pointer
\* does not move to the return address of the frame.
C7_LeaveWithSlotRejected ==
    [][ (/\ Fetched("Leave") /\ executed' = executed + 1
         /\ memory.stack_frame # <<>>
         /\ memory.stack_frame[Innermost(memory.stack_frame)].destination # NoAddress)
        => /\ phase' \in {"error", "panic"}
           /\ register_state(memory') = register_state(memory)
           /\ memory'.stack = memory.stack
           /\ program_pointer' = program_pointer ]_vars

\* A leave has faulted on the frame of a value-returning call, with rax not
\* what the frame had saved and the program pointer still at the leave.
C7_Witness ==
    /\ phase = "panic"
    /\ last.op = "Leave" /\ last.popped
    /\ last.frame.destination # NoAddress
    /\ memory.rax # last.frame.register_state[1]
    /\ source_code[program_pointer + 1] = Leave
    /\ program_pointer # last.frame.return_address + 1

\* C8: a ret with no frame live stops the run at the ret: when its operand
\* can be read the run halts with exit code the operand's value for an
\* Integer and 1 for any other value, otherwise it ends in the read error;
\* nothing executes after a halt.
C8_TopLevelReturnHalts ==
    [][ /\ (Fetched("Return") /\ executed' = executed + 1 /\ memory.stack_frame = <<>>)
           => LET s == Memory_get(memory, source_code[program_pointer + 1].operand1)
              IN  /\ program_pointer' = program_pointer
                  /\ memory' = memory
                  /\ IF s.err # NoError THEN phase' = "error" /\ error' = s.err
                     ELSE /\ phase' = "halted"
                          /\ exit_code' = CASE s.v.t = "Integer" -> s.v.i
                                            [] s.v.t \in {"String", "Address", "Untyped"} -> 1
        /\ phase # "halted" ]_vars

\* A top-level ret of a pointer has halted the run with exit code 1, before
\* the last command of the program.
C8_Witness ==
    /\ phase = "halted"
    /\ last.op = "Return" /\ ~last.popped
    /\ last.value.t = "Address"
    /\ exit_code = 1
    /\ program_pointer + 1 < Len(source_code)

\* C9: a leave with no frame live halts the run with exit code 0 and no
\* error, registers and stack as they were.
C9_TopLevelLeaveHalts ==
    [][ (Fetched("Leave") /\ executed' = executed + 1 /\ memory.stack_frame = <<>>)
        => /\ phase' = "halted"
           /\ exit_code' = 0
           /\ error' = NoError
           /\ memory' = memory
           /\ program_pointer' = program_pointer ]_vars

\* A top-level leave has halted a run whose rax had been written.
C9_Witness ==
    /\ phase = "halted"
    /\ last.op = "Leave" /\ ~last.popped
    /\ exit_code = 0
    /\ memory.rax = TypeInteger(5)
    /\ calls = <<>>

\* A program with no call and no jump.
StraightLine == \A n \in 1..Len(source_code) : ~IsEntry(source_code[n])

\* C10 (as claimed): in a straight-line program the program pointer is the
\* number of commands executed.
C10_PointerCountsCommands == StraightLine => program_pointer = executed

\* C10 (amended): in a straight-line program the program pointer is the
\* number of commands executed as long as none of them was a top-level ret
\* or leave or ended in an error; the command that stops the run leaves the
\* program pointer at its own index.
C10_PointerCountsCompleted ==
    StraightLine =>
        /\ phase \in {"constructed", "running", "done"} => program_pointer = executed
        /\ phase \in {"halted", "error", "panic"} =>
              /\ executed = program_pointer + 1
              /\ last.at = program_pointer

\* A straight-line program has run three commands and stands at the fourth.
C10_Witness ==
    /\ StraightLine
    /\ phase = "running"
    /\ executed = 3 /\ program_pointer = 3
    /\ Len(source_code) > 3

----------------------------------------------------------------------------
(* Properties of writes *)

\* The step is an iteration of the driver loop.
Iterates == executed' = executed + 1

\* The frame a ret or leave pops.
PoppedFrame == PopFrame(memory.stack_frame).frame

\* The outcomes of the operation of the command about to run, when its
\* operands can be read.
Outcomes ==
    LET c == source_code[program_pointer + 1]
        g1 == Memory_get(memory, c.operand1)
        g2 == Memory_get(memory, c.operand2)
    IN  CASE c.op = "LoadEffectiveAddress" -> {Ok(TypeAddress(c.source))}
          [] c.op = "Mov" -> IF g1.err = NoError THEN {g1} ELSE {}
          [] c.op = "Add" ->
                IF g1.err = NoError /\ g2.err = NoError THEN Type_add(g1.v, g2.v) ELSE {}
          [] c.op = "Sub" ->
                IF g1.err = NoError /\ g2.err = NoError THEN Type_sub(g1.v, g2.v) ELSE {}
          [] c.op = "Return" ->
                IF /\ g1.err = NoError
                   /\ memory.stack_frame # <<>>
                   /\ PoppedFrame.destination # NoAddress
                THEN {g1} ELSE {}
          [] OTHER -> {}

\* The command about to run hands one value to Memory::set, whatever the
\* build: its operands can be read and its operation has one outcome, a value.
Writes == Cardinality(Outcomes) = 1 /\ \A q \in Outcomes : q.err = NoError

WrittenValue == (CHOOSE q \in Outcomes : TRUE).v

\* The destination of that write: of the command, or the return slot.
WriteDestination ==
    IF source_code[program_pointer + 1].op = "Return" THEN PoppedFrame.destination
    ELSE source_code[program_pointer + 1].destination

\* The memory that write finds: a ret has popped the frame and put the
\* registers back before it writes.
WriteBefore ==
    IF source_code[program_pointer + 1].op = "Return"
    THEN RestoreRegisters(
            [memory EXCEPT !.stack_frame = PopFrame(@).rest], PoppedFrame)
    ELSE memory

SameRegisters(m1, m2) == m1.rax = m2.rax /\ m1.rbx = m2.rbx /\ m1.rcx = m2.rcx

\* C11: a write to stack slot N fails with the Write error and leaves the
\* registers and the stack as they were when N >= 64; when N is in 0..63 it
\* succeeds, slot N holds the value and no other slot has changed.
C11_SlotWriteIsBounded ==
    [][ (Iterates /\ Writes /\ WriteDestination.kind = "StackPointer")
        => LET N == WriteDestination.index
           IN  IF N \in 0..(StackLen - 1)
               THEN /\ error' = NoError /\ phase' = "running"
                    /\ memory'.stack[N + 1] = WrittenValue
                    /\ \A k \in 1..StackLen :
                          k # N + 1 => memory'.stack[k] = WriteBefore.stack[k]
               ELSE /\ error' = Err("Write") /\ phase' = "error"
                    /\ memory'.stack = WriteBefore.stack
                    /\ SameRegisters(memory', WriteBefore) ]_vars

\* A mov to slot 64 has failed with the Write error, and in another run a
\* mov to slot 63 has stored its value: the witness is the first of the two.
C11_Witness ==
    /\ phase = "error" /\ error = Err("Write")
    /\ last.op = "Mov"
    /\ source_code[last.at + 1].destination = StackPointer(StackLen)
    /\ memory.rcx = TypeInteger(4)

\* The value stored at X, for a write whose destination is [X].
Pointer == Memory_get(WriteBefore, AssignmentFrom(Destination(WriteDestination)))

\* The command about to run hands a value to Memory::set for a Reference
\* destination whose cell X can be read.
WritesThroughReference ==
    Writes /\ WriteDestination.kind = "Reference" /\ Pointer.err = NoError

\* C12: a write through [X] whose pointer value is a stack slot address
\* with an index that is not below the stack length ends in a bounds error
\* as an ordinary error result, writes no cell and never aborts the
\* interpreter.
C12_PointerPastEndIsError ==
    [][ (/\ Iterates /\ WritesThroughReference
         /\ Pointer.v.t = "Address" /\ Pointer.v.a.kind = "StackPointer"
         /\ UGe(Pointer.v.a.index, StackLen))
        => /\ phase' = "error"
           /\ error'.kind \in {"Write", "Read"}
           /\ memory'.stack = WriteBefore.stack
           /\ SameRegisters(memory', WriteBefore) ]_vars


\* The value is one usize_from turns into a slot: an Integer n with
\* 0 < n < stack length, or a stack slot address.
NamesSlot(v) ==
    \/ v.t = "Integer" /\ 0 < v.i /\ v.i < StackLen
    \/ v.t = "Address" /\ v.a.kind = "StackPointer"

\* C13: a write through [X] succeeds only if the value stored at X is an
\* Integer n with 0 < n < stack length or a stack slot address; when that
\* value is a String, Untyped, an Integer that is not positive or not below
\* the stack length, or the address of a register or of a reference, the
\* write fails with an error (SegmentationFault for the two kinds of
\* address) and no register and no stack slot changes.
C13_ReferenceWriteNeedsSlot ==
    [][ (Iterates /\ WritesThroughReference)
        => /\ (phase' = "running" /\ error' = NoError) => NamesSlot(Pointer.v)
           /\ ~NamesSlot(Pointer.v) =>
                 /\ phase' = "error" /\ error' # NoError
                 /\ Pointer.v.t = "Address" => error' = Err("SegmentationFault")
                 /\ memory'.stack = WriteBefore.stack
                 /\ SameRegisters(memory', WriteBefore) ]_vars

\* A mov through [X] has failed with the addressing fault, X holding the
\* address of a register.
C13_Witness ==
    /\ phase = "error" /\ error = Err("SegmentationFault")
    /\ last.op = "Mov"
    /\ source_code[last.at + 1].destination.kind = "Reference"
    /\ Memory_get(memory, AssignmentFrom(Destination(source_code[last.at + 1].destination))).v
          = TypeAddress(rcx)


----------------------------------------------------------------------------
(* Properties of reads *)

\* The slot a value that names one names.
SlotOf(v) == IF v.t = "Integer" THEN v.i ELSE v.a.index

\* The value stored at X, for the command `mov rax [X]` about to run.
ReadPointer ==
    Memory_get(memory, AssignmentFrom(Destination(source_code[program_pointer + 1].operand1.a)))

\* The command about to run is `mov rax [X]` and the value stored at X
\* names a slot of the stack.
ReadsThroughReference ==
    LET c == source_code[program_pointer + 1]
    IN  /\ c.op = "Mov" /\ c.destination = rax
        /\ c.operand1.k = "Address" /\ c.operand1.a.kind = "Reference"
        /\ ReadPointer.err = NoError
        /\ NamesSlot(ReadPointer.v)
        /\ SlotOf(ReadPointer.v) \in 0..(StackLen - 1)

\* C14: reading the operand [X] yields the content of the stack slot that
\* the value stored at X names, not the value stored at X: `mov rax [X]`
\* leaves in rax what that slot holds, so V after a successful `mov [X] V`.
C14_ReferenceReadDereferences ==
    [][ (Iterates /\ ReadsThroughReference)
        => /\ phase' = "running"
           /\ memory'.rax = memory.stack[SlotOf(ReadPointer.v) + 1] ]_vars


----------------------------------------------------------------------------
(* Properties of addition and subtraction *)

\* The command about to run is op with a register for destination, and its
\* two operands can be read.
Computes(op) ==
    LET c == source_code[program_pointer + 1]
    IN  /\ c.op = op /\ c.destination.kind = "Register"
        /\ Memory_get(memory, c.operand1).err = NoError
        /\ Memory_get(memory, c.operand2).err = NoError

Left == Memory_get(memory, source_code[program_pointer + 1].operand1).v

Right == Memory_get(memory, source_code[program_pointer + 1].operand2).v

\* What the step has done: stored v in the destination and gone on, ended
\* in the error e, or panicked; the last two with nothing written.
Yields(v) ==
    /\ phase' = "running" /\ error' = NoError
    /\ RegisterOf(memory', source_code[program_pointer + 1].destination.reg) = v
    /\ \A r \in Registers \ {source_code[program_pointer + 1].destination.reg} :
          RegisterOf(memory', r) = RegisterOf(memory, r)
    /\ memory'.stack = memory.stack

FailsWith(e) == phase' = "error" /\ error' = e /\ memory' = memory

Panics == phase' = "panic" /\ memory' = memory

IsSlot(v) == v.t = "Address" /\ v.a.kind = "StackPointer"

Text(a, b) == TypeString(to_string_raw(a) \o to_string_raw(b))

\* C15 (as claimed): a + b is Integer(a + b) for two Integers, the stack
\* slot address of index i + j for a stack slot address plus an Integer or
\* a stack slot address, the IncompatibleTypes error for any other address
\* on the left with an Integer or an address on the right, and for every
\* other pair the text of a followed by the text of b.
C15_AdditionTable ==
    [][ (Iterates /\ Computes("Add"))
        => CASE Left.t = "Integer" /\ Right.t = "Integer" ->
                   Yields(TypeInteger(Left.i + Right.i))
             [] IsSlot(Left) /\ Right.t = "Integer" ->
                   Yields(SlotValue(Left.a.index + Right.i))
             [] IsSlot(Left) /\ IsSlot(Right) ->
                   Yields(SlotValue(USizeOf(Left.a.index) + USizeOf(Right.a.index)))
             [] Left.t = "Address" /\ ~IsSlot(Left) /\ Right.t \in {"Integer", "Address"} ->
                   FailsWith(Err("TryAdd"))
             [] OTHER -> Yields(Text(Left, Right)) ]_vars

\* C15 (amended): a + b is Integer(a + b) for two Integers and the stack
\* slot address of index i + j, as a usize, for a stack slot address plus an
\* Integer or a stack slot address, when the machine addition does not
\* overflow; when it does, the step panics or stores the wrapped sum.  An
\* address plus an Integer or an address is the IncompatibleTypes error in
\* every other case: a register or reference address on the left, and a
\* stack slot address plus a register or reference address.  Every other
\* pair gives the text of a followed by the text of b.
C15_AdditionTableWithinWord ==
    [][ (Iterates /\ Computes("Add"))
        => CASE Left.t = "Integer" /\ Right.t = "Integer" ->
                   IF InWord(Left.i + Right.i)
                   THEN Yields(TypeInteger(Left.i + Right.i))
                   ELSE Panics \/ Yields(TypeInteger(WrapWord(Left.i + Right.i)))
             [] IsSlot(Left) /\ Right.t = "Integer" ->
                   IF InWord(Left.a.index + Right.i)
                   THEN Yields(SlotValue(Left.a.index + Right.i))
                   ELSE Panics \/ Yields(SlotValue(WrapWord(Left.a.index + Right.i)))
             [] IsSlot(Left) /\ IsSlot(Right) ->
                   IF USizeOf(Left.a.index) + USizeOf(Right.a.index) < Modulus
                   THEN Yields(SlotValue(WrapWord(Left.a.index + Right.a.index)))
                   ELSE Panics \/ Yields(SlotValue(WrapWord(Left.a.index + Right.a.index)))
             [] /\ Left.t = "Address" /\ Right.t \in {"Integer", "Address"}
                /\ ~(IsSlot(Left) /\ (Right.t = "Integer" \/ IsSlot(Right))) ->
                   FailsWith(Err("TryAdd"))
             [] OTHER -> Yields(Text(Left, Right)) ]_vars

\* An add of a stack slot address and the address of a register has ended
\* in the IncompatibleTypes error.
C15_Witness ==
    /\ phase = "error" /\ error = Err("TryAdd")
    /\ last.op = "Add"
    /\ memory.rax = SlotValue(3)
    /\ memory.rbx = TypeAddress(rcx)


\* The program is `mov rax v; mov rbx rax; op ...`, op an add or a sub with
\* rax or rbx for destination, and three commands have been executed.
AliasedRun ==
    /\ Len(source_code) >= 3 /\ executed = 3
    /\ source_code[1].op = "Mov" /\ source_code[1].destination = rax
    /\ source_code[1].operand1.k = "Value" /\ source_code[1].operand1.v.t = "Integer"
    /\ source_code[2] = Mov(rbx, Address(rax))
    /\ source_code[3].op \in {"Add", "Sub"}
    /\ source_code[3].destination \in {rax, rbx}

\* The program is the one of the claim.
DoublingRun == AliasedRun /\ source_code[3] = Add(rax, Address(rax), Address(rbx))

Literal == source_code[1].operand1.v.i

\* The Integer an operand of the third command has when both registers
\* hold v.
OperandInteger(o) == IF o.k = "Value" THEN o.v.i ELSE Literal

\* The exact result of the third command on the state before it.
ExactResult ==
    IF source_code[3].op = "Add"
    THEN OperandInteger(source_code[3].operand1) + OperandInteger(source_code[3].operand2)
    ELSE OperandInteger(source_code[3].operand1) - OperandInteger(source_code[3].operand2)

\* The register of rax and rbx that the third command does not write.
OtherRegister == IF source_code[3].destination = rax THEN "rbx" ELSE "rax"

\* C16 (as claimed): for every Integer v, `mov rax v; mov rbx rax;
\* add rax rax rbx` leaves rax = Integer(2v) and rbx = Integer(v).
C16_AddUsesOldDestination ==
    DoublingRun =>
        /\ memory.rax = TypeInteger(2 * Literal)
        /\ memory.rbx = TypeInteger(Literal)

\* C16 (amended): add and sub read both operands from the state before the
\* command and then write the destination, so a destination that is also
\* an operand contributes its old value: after `mov rax v; mov rbx rax` an
\* add or sub into rax or rbx leaves the exact result of the old values in
\* the destination, and v in the other register, when that result is
\* within isize (rax = Integer(2v), rbx = Integer(v) for add rax rax rbx);
\* when it is not, the command panics with both registers still v, or
\* stores the wrapped result.
C16_AddUsesOldDestinationWithinWord ==
    AliasedRun =>
        /\ RegisterOf(memory, OtherRegister) = TypeInteger(Literal)
        /\ IF InWord(ExactResult)
           THEN /\ phase = "running"
                /\ RegisterOf(memory, source_code[3].destination.reg)
                      = TypeInteger(ExactResult)
           ELSE \/ /\ phase = "panic"
                   /\ RegisterOf(memory, source_code[3].destination.reg)
                         = TypeInteger(Literal)
                \/ /\ phase = "running"
                   /\ RegisterOf(memory, source_code[3].destination.reg)
                         = TypeInteger(WrapWord(ExactResult))

\* `mov rax 5; mov rbx rax; add rax rax rbx` has run: rax = 10, rbx = 5.
C16_Witness ==
    /\ DoublingRun /\ Literal = 5
    /\ phase = "running"
    /\ memory.rax = TypeInteger(10) /\ memory.rbx = TypeInteger(5)


\* The difference of two usize.
SlotDifference == USizeOf(Left.a.index) - USizeOf(Right.a.index)

\* The step has gone on with a value in the destination.
Succeeds == phase' = "running" /\ error' = NoError

\* C17 (as claimed): a - b succeeds only for two Integers, giving the
\* Integer a - b, and for two stack slot addresses, giving the stack slot
\* address of index i - j; for every other pair of kinds `sub D a b` ends in
\* the Subtraction error with both operands and changes nothing.
C17_SubtractionTable ==
    [][ (Iterates /\ Computes("Sub"))
        => CASE Left.t = "Integer" /\ Right.t = "Integer" ->
                   Succeeds => Yields(TypeInteger(Left.i - Right.i))
             [] IsSlot(Left) /\ IsSlot(Right) ->
                   Succeeds =>
                       \E r \in {RegisterOf(memory', source_code[program_pointer + 1].destination.reg)} :
                           IsSlot(r) /\ USizeOf(r.a.index) = SlotDifference
             [] OTHER ->
                   /\ FailsWith(Subtraction(Left, Right))
                   /\ program_pointer' = program_pointer ]_vars

\* C17 (amended): a - b is Integer(a - b) for two Integers when a - b is
\* within isize, and the stack slot address of index i - j for two stack
\* slot addresses when i >= j; otherwise, for these two pairs, the command
\* panics or stores the wrapped difference.  For every other pair of kinds
\* `sub D a b` ends in the Subtraction error with both operands and
\* changes nothing.
C17_SubtractionTableWithinWord ==
    [][ (Iterates /\ Computes("Sub"))
        => CASE Left.t = "Integer" /\ Right.t = "Integer" ->
                   IF InWord(Left.i - Right.i)
                   THEN Yields(TypeInteger(Left.i - Right.i))
                   ELSE Panics \/ Yields(TypeInteger(WrapWord(Left.i - Right.i)))
             [] IsSlot(Left) /\ IsSlot(Right) ->
                   IF SlotDifference >= 0
                   THEN Yields(SlotValue(WrapWord(SlotDifference)))
                   ELSE Panics \/ Yields(SlotValue(WrapWord(SlotDifference)))
             [] OTHER ->
                   /\ FailsWith(Subtraction(Left, Right))
                   /\ program_pointer' = program_pointer ]_vars

\* A sub of a String and an Integer has ended in the Subtraction error
\* that carries the two operands, the destination rcx never written.
C17_Witness ==
    /\ phase = "error"
    /\ error = Subtraction(TypeString(<<"a", "b">>), TypeInteger(5))
    /\ last.op = "Sub"
    /\ memory.rcx = Untyped


----------------------------------------------------------------------------
(* Properties of printf and lea *)

\* format with its first "{}" replaced.
RECURSIVE ReplaceFirst(_, _)
ReplaceFirst(format, with) ==
    IF Len(format) < 2 THEN format
    ELSE IF format[1] = "{" /\ format[2] = "}"
         THEN with \o SubSeq(format, 3, Len(format))
         ELSE <<format[1]>> \o ReplaceFirst(Tail(format), with)

\* The command about to run is `syscall printf`.
CallsPrintf ==
    /\ source_code[program_pointer + 1].op = "Syscall"
    /\ source_code[program_pointer + 1].label = "printf"

\* C18: printf with a String in rax prints one line, the template with its
\* first "{}" replaced by the raw text of rbx and the later "{}" kept, or
\* the template itself when it has no "{}".
C18_PrintfReplacesFirstMarker ==
    [][ (Iterates /\ CallsPrintf /\ memory.rax.t = "String")
        => /\ phase' = "running"
           /\ output' = Append(output,
                               ReplaceFirst(memory.rax.s, to_string_raw(memory.rbx))) ]_vars

\* C19: printf with an Integer, an address or Untyped in rax ends in the
\* WrongType error, prints no line, changes no register, stack slot or
\* frame, and no command is executed after it.
C19_PrintfNeedsString ==
    [][ /\ (Iterates /\ CallsPrintf /\ memory.rax.t # "String")
           => /\ phase' = "error" /\ error' = Err("WrongType")
              /\ output' = output
              /\ memory' = memory
              /\ program_pointer' = program_pointer
        /\ error.kind # "WrongType" ]_vars

\* printf has failed on an Integer in rax, inside a call, after slot 1 and
\* rbx were written.
C19_Witness ==
    /\ phase = "error" /\ error = Err("WrongType")
    /\ last.op = "Syscall"
    /\ memory.rax = TypeInteger(5)
    /\ memory.stack[2] = TypeInteger(8)
    /\ memory.stack_frame # <<>>
    /\ output = <<>>

\* The lea about to run has a destination that is a cell: a register, a
\* slot of the stack, or [X] with the value at X naming a slot of the stack.
LeaResolves ==
    LET c == source_code[program_pointer + 1]
        D == c.destination
        X == Memory_get(memory, AssignmentFrom(Destination(D)))
    IN  /\ c.op = "LoadEffectiveAddress"
        /\ CASE D.kind = "Register" -> TRUE
             [] D.kind = "StackPointer" -> D.index \in 0..(StackLen - 1)
             [] OTHER -> /\ X.err = NoError /\ NamesSlot(X.v)
                         /\ SlotOf(X.v) \in 0..(StackLen - 1)

\* The slot of the stack the lea about to run writes, -1 for a register.
LeaSlot ==
    LET D == source_code[program_pointer + 1].destination
    IN  CASE D.kind = "Register" -> -1
          [] D.kind = "StackPointer" -> D.index
          [] OTHER -> SlotOf(Memory_get(memory, AssignmentFrom(Destination(D))).v)

\* C20: `lea D A`, D a cell, stores in D the address A, whatever A holds
\* and whether or not A can be read, and changes no other cell.
C20_LeaStoresAddress ==
    [][ (Iterates /\ LeaResolves)
        => LET c == source_code[program_pointer + 1]
               pointer == TypeAddress(c.source)
           IN  /\ phase' = "running" /\ error' = NoError
               /\ program_pointer' = program_pointer + 1
               /\ \A r \in Registers :
                     RegisterOf(memory', r) =
                        IF c.destination = Register(r) THEN pointer
                        ELSE RegisterOf(memory, r)
               /\ \A k \in 1..StackLen :
                     memory'.stack[k] =
                        IF k = LeaSlot + 1 THEN pointer ELSE memory.stack[k]
               /\ memory'.stack_frame = memory.stack_frame ]_vars

\* A lea of a stack slot past the end of the stack has stored its address
\* in slot 0.
C20_Witness ==
    /\ phase = "running"
    /\ last.op = "LoadEffectiveAddress"
    /\ source_code[last.at + 1].destination = StackPointer(0)
    /\ memory.stack[1] = TypeAddress(StackPointer(StackLen + 6))

----------------------------------------------------------------------------
(* Termination of the driver loop *)

\* run() has returned or the process has aborted.
Stopped == phase \in {"done", "halted", "error", "panic"}

\* The call-frame stack has held more than MaxFrames frames.
Deep == memory.stack_frame # <<>> /\ memory.stack_frame[1] = Elided

\* The program has a command that enters a label.
EntersLabels ==
    \E i \in 1..Len(source_code) : source_code[i].op \in {"CallRet", "CallVoid", "Jmp"}

\* C21 as stated: every run of a program that passed parsing and the
\* semantic check eventually stops, in completion, a terminal value or a
\* fatal error.  (A run that failed the check has stopped in the error.)
C21_EveryRunStops == <>(Stopped \/ Unfollowed)

\* C21, amended: every run eventually stops unless its call-frame stack
\* grows deeper than MaxFrames frames.
C21_RunStopsOrDeepens == <>(Stopped \/ Deep)

\* A run that entered labels, passed the check and completed.
C21_Witness ==
    /\ follow
    /\ phase = "done"
    /\ EntersLabels
    /\ memory.rax = TypeInteger(5)

----------------------------------------------------------------------------
(* Properties of parsing one line *)

\* Command::from_str has returned or panicked.
ParseDone == parser.stage \in {"command", "error", "panic"}

ParsesTo(command) ==
    /\ parser.stage = "command"
    /\ parser.command.op = command.op
    /\ parser.command = command

IsParseError == parser.stage = "error" /\ parser.err.kind = "ParseError"

\* The token counts a mnemonic belongs to.
Belongs(mnemonic) ==
    CASE mnemonic = <<"l", "e", "a", "v", "e">> -> {1}
      [] mnemonic \in {<<"s", "y", "s", "c", "a", "l", "l">>, <<"j", "m", "p">>, <<"r", "e", "t">>} -> {2}
      [] mnemonic = <<"c", "a", "l", "l">> -> {2, 3}
      [] mnemonic \in {<<"l", "e", "a">>, <<"m", "o", "v">>} -> {3}
      [] OTHER -> {4}

\* The operands from the i-th word on are operands of add and sub.
AreOperands(words) ==
    /\ Address_from_str(words[2]).err = NoError
    /\ \A i \in 3..Len(words) : Assignment_from_str(words[i]).err = NoError

\* C22: the production is selected by token count and mnemonic.  One
\* token: Leave for leave, a label definition named by the token less its
\* trailing colon for a token that ends in a colon, an unknown-instruction
\* error otherwise.  call L is a void call, call D L a value-returning call
\* with destination D.  add and sub take exactly 4 tokens.  A mnemonic with
\* a token count it does not belong to, and a line of 0 or more than 4
\* tokens, is a ParseError.
C22_ProductionByTokenCount ==
    ParseDone =>
        LET words == parser.words
            n == Len(words)
            first == words[1]
        IN  /\ (n = 0 \/ n > 4) => IsParseError
            /\ n = 1 =>
                   IF first = <<"l", "e", "a", "v", "e">> THEN ParsesTo(Leave)
                   ELSE IF first[Len(first)] = ":"
                   THEN ParsesTo(Label(SubSeq(first, 1, Len(first) - 1)))
                   ELSE IsParseError /\ parser.err.label = "Unknown instruction"
            /\ (n = 2 /\ first = <<"c", "a", "l", "l">>) => ParsesTo(CallVoid(words[2]))
            /\ (n = 3 /\ first = <<"c", "a", "l", "l">> /\ Address_from_str(words[2]).err = NoError) =>
                   ParsesTo(CallRet(Address_from_str(words[2]).a, words[3]))
            /\ (n = 4 /\ first \in {<<"a", "d", "d">>, <<"s", "u", "b">>} /\ AreOperands(words)) =>
                   /\ parser.stage = "command"
                   /\ parser.command.op = (IF first = <<"a", "d", "d">> THEN "Add" ELSE "Sub")
            /\ (n >= 1 /\ first \in Mnemonics /\ n \notin Belongs(first)) => IsParseError

----------------------------------------------------------------------------
(* The part of the machine state each command changes *)

\* Commands with a data effect only, and the commands that enter a label.
DataCommands == {"Mov", "Add", "Sub", "LoadEffectiveAddress", "Syscall", "Label"}

EnteringCommands == {"CallRet", "CallVoid", "Jmp"}

----------------------------------------------------------------------------
(* What the semantic check promises of a run *)

\* C24: in a run of a program that passed the semantic check, Leave never
\* executes while the innermost frame has a return slot: a block entered by
\* a value-returning call is left through a Return, never through a Leave
\* before the Return.
C24_LeaveNeverMeetsReturnSlot ==
    ~(last.op = "Leave" /\ last.popped /\ last.frame.destination # NoAddress)

\* C25: in a run of a program that passed the semantic check, when the
\* program pointer moves past the last command and the loop ends without a
\* terminal value, the call-frame stack is empty.
C25_NoBlockRunsOffTheEnd ==
    phase = "done" => memory.stack_frame = <<>>

----------------------------------------------------------------------------
(* The machine state an error leaves *)

\* The step is an iteration that ends in Err: a run-time error that run()
\* returns.
EndsInError == Iterates /\ phase' = "error"

\* C26 as stated: a command that ends in a run-time error leaves the
\* registers, the stack slots, the call-frame stack and the program pointer
\* as they were before it started; a ret whose return slot cannot be
\* written does not pop the frame or restore registers.
C26_ErrorLeavesStateUntouched ==
    [][ EndsInError => memory' = memory /\ program_pointer' = program_pointer ]_vars

\* C26, amended: a command that ends in a run-time error leaves the stack
\* slots and the program pointer as they were, and the registers and the
\* call-frame stack too unless it is a ret whose return slot cannot be
\* written: that ret has popped the frame and restored the registers as a
\* ret that succeeds does.
C26_ErrorLeavesStateButForThePop ==
    [][ EndsInError =>
        /\ program_pointer' = program_pointer
        /\ memory'.stack = memory.stack
        /\ IF Command.op = "Return" /\ last'.popped
           THEN /\ PoppedFrame.destination # NoAddress
                /\ Memory_set(WriteBefore, PoppedFrame.destination, last'.value).err
                       = error'
                /\ memory' = WriteBefore
           ELSE memory' = memory
      ]_vars

\* A ret inside a call whose return slot is past the end of the stack has
\* failed: the frame is gone and rbx is back at the value of the call.
C26_Witness ==
    /\ phase = "error"
    /\ last.op = "Return" /\ last.popped
    /\ last.frame.destination = StackPointer(StackLen)
    /\ memory.stack_frame = <<>>
    /\ last.frame.register_state[2] = TypeInteger(2)
    /\ memory.rbx = TypeInteger(2)
    /\ memory.rax = Untyped

----------------------------------------------------------------------------
(* What unwinding a frame changes *)

\* The step is a ret or a leave that popped a frame and went on.
Unwinds == Iterates /\ last'.popped /\ phase' = "running"

\* The cell the return slot of the popped frame resolves to, NoAddress for a
\* frame without one and for a leave.
ReturnCell ==
    IF Command.op = "Return" /\ PoppedFrame.destination # NoAddress
    THEN Cell(WriteBefore, PoppedFrame.destination)
    ELSE NoAddress

\* The value of a cell.
Content(mem, cell) ==
    IF cell.kind = "Register" THEN RegisterOf(mem, cell.reg) ELSE mem.stack[cell.index + 1]

Cells == {Register(r) : r \in Registers} \cup {StackPointer(n) : n \in 0..(StackLen - 1)}

\* C27: unwinding a frame, by ret or leave, restores registers only: every
\* stack slot keeps the value it had just before, except the one slot the
\* return slot of the frame resolves to, so the stack writes of a called
\* block stay visible to the caller; and every stack slot and register that
\* was never the target of a write is Untyped.
C27_UnwindingKeepsTheStack ==
    /\ [][ Unwinds =>
           /\ \A n \in 0..(StackLen - 1) :
                  StackPointer(n) # ReturnCell => memory'.stack[n + 1] = memory.stack[n + 1]
           /\ \A r \in Registers :
                  Register(r) # ReturnCell =>
                      RegisterOf(memory', r) =
                          IF PoppedFrame.entered_with_jmp THEN RegisterOf(memory, r)
                          ELSE RegisterOf([rax |-> PoppedFrame.register_state[1],
                                           rbx |-> PoppedFrame.register_state[2],
                                           rcx |-> PoppedFrame.register_state[3]], r)
         ]_vars
    /\ [](\A cell \in Cells : cell \notin written => Content(memory, cell) = Untyped)

\* The caller has read, after the call returned, the 8 the block wrote to
\* slot 2; rbx is back at the caller's 2, the return slot 5 holds the 7
\* returned and slot 4 was never written.
C27_Witness ==
    /\ phase = "running"
    /\ last.op = "Mov" /\ last.at = 3
    /\ memory.rcx = TypeInteger(8)
    /\ memory.rbx = TypeInteger(2)
    /\ memory.stack[3] = TypeInteger(8)
    /\ memory.stack[4] = TypeInteger(9)
    /\ memory.stack[6] = TypeInteger(7)
    /\ written = {rbx, rcx, StackPointer(1), StackPointer(2), StackPointer(3), StackPointer(5)}
    /\ memory.stack[5] = Untyped /\ memory.rax = Untyped

----------------------------------------------------------------------------
(* Stack address arithmetic *)

\* The index the sum of a stack slot address and an Integer names.
SlotSum == USizeOf(Left.a.index) + Right.i

\* C28: stack-address arithmetic never produces a wrapped or negative slot
\* index: for a stack slot address of index i and an Integer j, add yields
\* the stack slot address i + j when i + j >= 0 and an error otherwise; for
\* stack slot addresses i and j, sub yields i - j when i >= j and an error
\* otherwise.
C28_SlotArithmeticNeverWraps ==
    /\ [][ (Iterates /\ Computes("Add") /\ IsSlot(Left) /\ Right.t = "Integer")
           => IF SlotSum >= 0
              THEN Yields(SlotValue(WrapWord(SlotSum)))
              ELSE phase' = "error" /\ memory' = memory ]_vars
    /\ [][ (Iterates /\ Computes("Sub") /\ IsSlot(Left) /\ IsSlot(Right))
           => IF SlotDifference >= 0
              THEN Yields(SlotValue(WrapWord(SlotDifference)))
              ELSE phase' = "error" /\ memory' = memory ]_vars

====
